---- MODULE Spec2Model ----
(***************************************************************************)
(* A model of compress.py: the batch video compressor.  main() probes the  *)
(* encoder and the accelerator, discovers the videos of the media          *)
(* directory, dispatches one compress_video task per video on a thread     *)
(* pool and prints a summary.  compress_video runs the encoder once and,   *)
(* when the accelerated run fails, once more in software mode.             *)
(*                                                                         *)
(* File names are sequences of one-character strings, so that splitext,    *)
(* lower, startswith and sorted are computed rather than assumed.          *)
(***************************************************************************)
EXTENDS Integers, Sequences, FiniteSets, TLC

VARIABLES
    pc,          \* main()'s position
    exit_code,   \* the process's exit status; -1 while main() is running
    media,       \* the media directory: [exists, entries]
    out_dir,     \* whether the output directory exists
    outfiles,    \* the output directory's files: name -> size
    use_gpu,     \* main()'s use_gpu (check_nvenc's answer)
    parallel,    \* main()'s parallel (the pool's max_workers)
    videos,      \* main()'s videos list
    tasks,       \* main()'s tasks list
    fut,         \* the futures: index -> [state, result]
    collected,   \* the futures as_completed has already yielded
    tstate,      \* compress_video's locals, per task: index -> record
    results,     \* main()'s results list
    summary,     \* the totals the final summary prints; NoSummary before
    probe_file,  \* check_nvenc's temporary artifact: absent, empty or nonempty
    encoder,     \* what the encoder's version query did; "unknown" before
    probe,       \* the check_nvenc call, when it is traced; NoProbe otherwise
    unit,        \* one call of a function on its own: [fn, in, out]; NoUnit otherwise
    ac,          \* as_completed's iterator, when it is traced: [started, early, done]
    app,         \* the admin that runs: [rev, encoding]; NoApp when none does
    data_file,   \* the admin's record file (media.json): [kind, ascii, entries]
    page         \* where the admin's last response sent the browser; NoPage before

vars == <<pc, exit_code, media, out_dir, outfiles, use_gpu, parallel, videos,
          tasks, fut, collected, tstate, results, summary, probe_file,
          encoder, probe, unit, ac, app, data_file, page>>

(***************************************************************************)
(* Bounds of the model.                                                    *)
(***************************************************************************)
\* The longest one encoder run takes, in clock ticks.
MaxDur == 2
\* The largest size the encoder writes, in size units.
MaxSize == 2
\* The most entries the record file holds before the admin's saves stop.
MaxEntries == 5

(***************************************************************************)
(* Configuration (compress.py, lines 10-15).                               *)
(***************************************************************************)
MEDIA_DIR == "media"
OUTPUT_DIR == "media_compressed"
MAX_PARALLEL == 3

VIDEO_EXTS ==
    { <<".", "m", "p", "4">>, <<".", "m", "o", "v">>, <<".", "w", "e", "b", "m">>,
      <<".", "o", "g", "g">>, <<".", "a", "v", "i">>, <<".", "m", "k", "v">>,
      <<".", "f", "l", "v">> }

(***************************************************************************)
(* Characters and strings.                                                 *)
(***************************************************************************)
\* The characters the model's file names use, in code-point order.
Alphabet ==
    << ".", "4", "M", "O", "V", "a", "b", "c", "d", "e", "g", "h", "i", "k",
       "l", "m", "n", "o", "p", "t", "v", "w", "x" >>

Ord(c) == CHOOSE i \in 1..Len(Alphabet) : Alphabet[i] = c

\* Mutant: the extension is compared as it is written.
LowerCharIdentity(c) == c

\* str.lower(), character by character.
LowerChar(c) ==
    CASE c = "M" -> "m"
      [] c = "O" -> "o"
      [] c = "V" -> "v"
      [] OTHER -> c

Lower(s) == [i \in 1..Len(s) |-> LowerChar(s[i])]

Min(a, b) == IF a < b THEN a ELSE b

\* Python's string order: s < t.
LexLess(s, t) ==
    \E k \in 1..(Min(Len(s), Len(t)) + 1) :
        /\ \A j \in 1..(k - 1) : s[j] = t[j]
        /\ IF k > Len(s)
             THEN k <= Len(t)
             ELSE k <= Len(t) /\ Ord(s[k]) < Ord(t[k])

\* sorted(S) for a set of distinct strings.
RECURSIVE Sorted(_)
Sorted(S) ==
    IF S = {} THEN <<>>
    ELSE LET m == CHOOSE x \in S : \A y \in S \ {x} : LexLess(x, y)
         IN  <<m>> \o Sorted(S \ {m})

\* str.rfind('.'): the last dot's position (1-based), 0 when there is none.
LastDot(s) ==
    LET D == {i \in 1..Len(s) : s[i] = "."}
    IN  IF D = {} THEN 0 ELSE CHOOSE i \in D : \A j \in D : j <= i

\* os.path.splitext(f)[1]: the extension from the last dot on, unless only
\* dots precede it.
SplitExt(s) ==
    LET d == LastDot(s)
    IN  IF d > 0 /\ \E j \in 1..(d - 1) : s[j] # "."
          THEN SubSeq(s, d, Len(s))
          ELSE <<>>

\* pathlib's Path(f).stem: the name without its last suffix.
Stem(s) ==
    LET d == LastDot(s)
    IN  IF 1 < d /\ d < Len(s) THEN SubSeq(s, 1, d - 1) ELSE s

StartsWithDot(s) == Len(s) > 0 /\ s[1] = "."

(***************************************************************************)
(* The environment: the media directories a run may find.                  *)
(***************************************************************************)
\* The media directory: absent, or present with its entries.
Missing == [exists |-> FALSE, entries |-> {}]
Present(dir) == [exists |-> TRUE, entries |-> dir]

F_aMOV == <<"a", ".", "M", "O", "V">>
F_amov == <<"a", ".", "m", "o", "v">>
F_amp4 == <<"a", ".", "m", "p", "4">>
F_bmp4 == <<"b", ".", "m", "p", "4">>
F_ctxt == <<"c", ".", "t", "x", "t">>
F_dwebm == <<"d", ".", "w", "e", "b", "m">>
F_hidden == <<".", "h", "i", "d", "d", "e", "n", ".", "m", "p", "4">>

Directories ==
    { {},
      {F_ctxt, F_hidden},
      {F_bmp4},
      {F_aMOV, F_bmp4, F_hidden, F_ctxt},
      {F_amov, F_amp4},
      {F_aMOV, F_amp4, F_bmp4, F_dwebm} }

\* os.path.getsize of a media file, in size units.
InputSize(name) == IF name[1] = "a" THEN 2 ELSE 1

\* What one encoder run may take and write.  Batches of more than two
\* videos run with one duration and one size, which keeps the number of
\* states of the wide batches small.
EncDurations(total) == IF total <= 2 THEN 1..MaxDur ELSE {1}
EncSizes(total) == IF total <= 2 THEN 1..MaxSize ELSE {1}

(***************************************************************************)
(* check_ffmpeg and check_nvenc (lines 47-88).                             *)
(***************************************************************************)
\* What subprocess.run(['ffmpeg', '-version'], timeout=5) may do.
FfmpegOutcomes == {"ok", "missing", "timeout"}

\* The same, with the query that runs and exits with a non-zero status.
VersionQueries == FfmpegOutcomes \cup {"failed"}

\* Mutant: the version query's failure is not noticed.
check_ffmpegAlwaysTrue(outcome) == TRUE

\* Mutant: the version query must exit with status 0.
check_ffmpegNeedsZeroExit(outcome) == outcome = "ok"

check_ffmpeg(outcome) == outcome \notin {"missing", "timeout"}

\* What the probing encode may do: raise (missing binary, timeout), or
\* finish with an exit status and a diagnostic text that names the codec or
\* not; either way with an effect on the artifact: none, an empty file, a
\* written file.
ProbeRuns ==
    [raised : {TRUE}, rc : {1}, names_codec : {FALSE},
     effect : {"none", "empty", "written"}]
    \cup [raised : {FALSE}, rc : {0, 1}, names_codec : BOOLEAN,
          effect : {"none", "empty", "written"}]

\* The artifact after the probing encode, given what was there before.
ProbeFileAfter(before, run) ==
    CASE run.effect = "written" -> "nonempty"
      [] run.effect = "empty" -> "empty"
      [] OTHER -> before

\* Mutant: only the artifact counts; no look at the diagnostic text.
check_nvencNoFallback(before, run, rm1_ok) ==
    ~run.raised /\ ProbeFileAfter(before, run) = "nonempty" /\ rm1_ok

\* Mutant: an exception of the probing encode is not treated apart.
check_nvencIgnoresRaise(before, run, rm1_ok) ==
    IF ProbeFileAfter(before, run) = "nonempty" THEN rm1_ok
    ELSE run.names_codec /\ run.rc = 0

\* check_nvenc's return value.  rm1_ok: os.remove at line 74 succeeds; when
\* it raises, the handler at lines 81-82 swallows the exception and the
\* function ends at line 88.
check_nvenc(before, run, rm1_ok) ==
    IF run.raised THEN FALSE
    ELSE IF ProbeFileAfter(before, run) = "nonempty" THEN rm1_ok
    ELSE IF run.names_codec /\ run.rc = 0 THEN TRUE
    ELSE FALSE

\* Mutant: no cleanup in a finally block; only line 74 removes the artifact.
ProbeFileLeftNoFinally(before, run, rm1_ok, rm2_ok) ==
    LET f == ProbeFileAfter(before, run)
    IN  IF ~run.raised /\ f = "nonempty" /\ rm1_ok THEN "absent" ELSE f

\* The artifact when check_nvenc returns.  rm2_ok: os.remove at line 85
\* succeeds (its failure is swallowed at line 86).
ProbeFileLeft(before, run, rm1_ok, rm2_ok) ==
    LET f == ProbeFileAfter(before, run)
    IN  IF ~run.raised /\ f = "nonempty" /\ rm1_ok THEN "absent"
        ELSE IF f = "absent" THEN "absent"
        ELSE IF rm2_ok THEN "absent"
        ELSE f

NoProbe == [none |-> TRUE]
NoUnit == [fn |-> "none"]

\* as_completed has not been called; no task has finished.
NotIterating == [started |-> FALSE, early |-> {}, done |-> <<>>]

\* The admin's record file and browser, while the admin is not running.
NoApp == [rev |-> "none"]
NoFile == [kind |-> "none", ascii |-> TRUE, entries |-> <<>>]
NoPage == [at |-> "none"]

(***************************************************************************)
(* Discovery and the task list (lines 291-305, 331-337).                   *)
(***************************************************************************)
RECURSIVE SelectVideos(_)
SelectVideos(fs) ==
    IF fs = <<>> THEN <<>>
    ELSE LET f == Head(fs)
         IN  IF StartsWithDot(f) THEN SelectVideos(Tail(fs))
             ELSE IF Lower(SplitExt(f)) \in VIDEO_EXTS
                    THEN <<f>> \o SelectVideos(Tail(fs))
                    ELSE SelectVideos(Tail(fs))

Discover(dir) == SelectVideos(Sorted(dir))

\* Mutant: the pool is always as wide as MAX_PARALLEL.
ParallelAlwaysMax(gpu) == MAX_PARALLEL

Parallel(gpu) == IF gpu THEN MAX_PARALLEL ELSE 1

\* os.path.join(dir, name) is the pair <<dir, name>>; basename is its name.
Join(dir, name) == <<dir, name>>
Basename(path) == path[2]

\* Mutant: the output name keeps the input's extension.
OutputNameKeepsExt(filename) == filename \o <<".", "m", "p", "4">>

OutputName(filename) == Stem(filename) \o <<".", "m", "p", "4">>

BuildTasks(vs) ==
    [i \in 1..Len(vs) |->
        [input_path |-> Join(MEDIA_DIR, vs[i]),
         output_path |-> Join(OUTPUT_DIR, OutputName(vs[i])),
         index |-> i,
         total |-> Len(vs)]]

(***************************************************************************)
(* build_gpu_cmd and build_cpu_cmd (lines 17-44, 147-201).                 *)
(***************************************************************************)
GPU_SETTINGS ==
    [resolution |-> "1920", fps |-> 60, codec |-> "h264_nvenc", preset |-> "p5",
     tune |-> "hq", rc |-> "vbr", cq |-> 22, b_v |-> "8M", maxrate |-> "12M",
     bufsize |-> "16M", audio_bitrate |-> "192k", audio_codec |-> "aac",
     pixel_format |-> "yuv420p"]

CPU_SETTINGS ==
    [resolution |-> "1920", fps |-> 60, codec |-> "libx264", crf |-> 20,
     preset |-> "medium", audio_bitrate |-> "192k", audio_codec |-> "aac",
     pixel_format |-> "yuv420p"]

\* str(n) for the numbers of the settings.
Str(n) ==
    CASE n = 20 -> "20"
      [] n = 22 -> "22"
      [] n = 60 -> "60"

\* Lines 151-154.
GpuScaleFilter ==
    "scale='min(iw,1920)':'min(ih,1080)':force_original_aspect_ratio=decrease,pad='ceil(iw/2)*2':'ceil(ih/2)*2'"

\* Mutant: the software command scales without padding.
CpuScaleFilterNoPad ==
    "scale='min(iw,1920)':'min(ih,1080)':force_original_aspect_ratio=decrease"

\* Lines 182-185.
CpuScaleFilter ==
    "scale='min(iw,1920)':'min(ih,1080)':force_original_aspect_ratio=decrease,pad='ceil(iw/2)*2':'ceil(ih/2)*2'"

build_gpu_cmd(input_path, output_path) ==
    LET s == GPU_SETTINGS
    IN  << "ffmpeg", "-y",
           "-hwaccel", "cuda",
           "-i", input_path,
           "-c:v", s.codec,
           "-preset", s.preset,
           "-tune", s.tune,
           "-rc", s.rc,
           "-cq", Str(s.cq),
           "-b:v", s.b_v,
           "-maxrate", s.maxrate,
           "-bufsize", s.bufsize,
           "-r", Str(s.fps),
           "-vf", GpuScaleFilter,
           "-pix_fmt", s.pixel_format,
           "-c:a", s.audio_codec,
           "-b:a", s.audio_bitrate,
           "-movflags", "+faststart",
           output_path >>

build_cpu_cmd(input_path, output_path) ==
    LET s == CPU_SETTINGS
    IN  << "ffmpeg", "-y",
           "-i", input_path,
           "-c:v", s.codec,
           "-preset", s.preset,
           "-crf", Str(s.crf),
           "-r", Str(s.fps),
           "-vf", CpuScaleFilter,
           "-pix_fmt", s.pixel_format,
           "-c:a", s.audio_codec,
           "-b:a", s.audio_bitrate,
           "-movflags", "+faststart",
           "-threads", "0",
           output_path >>

(***************************************************************************)
(* What the filter expression of lines 152-153 computes: the encoder's     *)
(* scale filter evaluates the two min() expressions, shrinks the result to *)
(* the input's aspect ratio (force_original_aspect_ratio=decrease, each    *)
(* dimension rounded to the nearest integer), and its pad filter rounds    *)
(* each dimension of the scaled picture up to an even number.              *)
(***************************************************************************)
MaxWidth == 1920
MaxHeight == 1080

\* a / b rounded to the nearest integer, for a >= 0 and b > 0.
RoundDiv(a, b) == (2 * a + b) \div (2 * b)

\* Mutant: the width is not capped.
ScaleWidthUncapped(iw) == iw

\* 'min(iw,1920)' and 'min(ih,1080)'.
ScaleWidth(iw) == Min(iw, MaxWidth)
ScaleHeight(ih) == Min(ih, MaxHeight)

\* force_original_aspect_ratio=decrease.
Scaled(iw, ih) ==
    LET w == ScaleWidth(iw)
        h == ScaleHeight(ih)
    IN  [w |-> Min(RoundDiv(h * iw, ih), w), h |-> Min(RoundDiv(w * ih, iw), h)]

\* 'ceil(iw/2)*2'.
PadEven(x) == ((x + 1) \div 2) * 2

ScalePad(iw, ih) ==
    LET sc == Scaled(iw, ih)
    IN  [scaled |-> sc, w |-> PadEven(sc.w), h |-> PadEven(sc.h)]

(***************************************************************************)
(* compress_video (lines 204-269).                                         *)
(***************************************************************************)
NoResult == [none |-> TRUE]

Result(ok, filename, original_size, compressed_size, elapsed) ==
    [ok |-> ok, filename |-> filename, original_size |-> original_size,
     compressed_size |-> compressed_size, elapsed |-> elapsed]

\* Mutant: a failed result that keeps the original size as compressed size.
FailedResultKeepsSize(filename, original_size, elapsed) ==
    Result(FALSE, filename, original_size, original_size, elapsed)

\* Line 249 and line 269: the failed result.
FailedResult(filename, original_size, elapsed) ==
    Result(FALSE, filename, original_size, 0, elapsed)

\* Mutant: an output that is not smaller than the input is a failure.
SucceededResultOnlyIfSmaller(filename, original_size, compressed_size, elapsed) ==
    Result(compressed_size < original_size, filename, original_size,
           compressed_size, elapsed)

\* Line 264: the succeeded result.
SucceededResult(filename, original_size, compressed_size, elapsed) ==
    Result(TRUE, filename, original_size, compressed_size, elapsed)

\* Mutant: the first command is always the software one.
FirstModeSoftware(gpu) == "cpu"

\* Lines 216-219: the mode of the first command.
FirstMode(gpu) == IF gpu THEN "gpu" ELSE "cpu"

\* Mutant: a failed run is never retried.
FallbackNever(rc, gpu) == FALSE

\* Mutant: every failed run is retried, whatever the mode.
FallbackWhateverMode(rc, gpu) == rc # 0

\* Line 232: whether a finished run is followed by the software retry.
FallbackNeeded(rc, gpu) == rc # 0 /\ gpu

\* Mutant: the retry keeps the first run's start time.
FallbackKeepsStartTime(old_start, now) == old_start

\* Line 235: the start of the measurement once the retry begins.
FallbackStartTime(old_start, now) == now

\* Lines 229, 241, 267: elapsed = time.time() - start_time.
Elapsed(now, start_time) == now - start_time

\* An exception raised before the try block (lines 206-221) leaves
\* compress_video: the future ends with the exception.
RaisedFuture == [state |-> "raised", result |-> NoResult]

\* Mutant: an exception raised inside the try block leaves compress_video.
UncaughtFuture(filename, original_size, elapsed) == RaisedFuture

\* Lines 266-269: an exception raised inside the try block is caught.
CaughtFuture(filename, original_size, elapsed) ==
    [state |-> "returned", result |-> FailedResult(filename, original_size, elapsed)]

ReturnedFuture(res) == [state |-> "returned", result |-> res]

\* One encoder invocation, as the task's log keeps it.
Run(mode, task, started) ==
    [mode |-> mode, input |-> task.input_path, output |-> task.output_path,
     started |-> started, ended |-> -1, status |-> "running", rc |-> -1,
     produced |-> 0, wrote |-> 0]

RunningTasks == {i \in DOMAIN tstate : tstate[i].pc \in {"primary", "fallback"}}
PendingTasks == {i \in DOMAIN fut : fut[i].state = "pending"}
Finished(i) == fut[i].state \in {"returned", "raised"}

\* Mutant: the pool starts one task more than max_workers.
WorkerFreeOffByOne == Cardinality(RunningTasks) <= parallel

\* The pool runs a pending task when a worker is free (max_workers).
WorkerFree == Cardinality(RunningTasks) < parallel

\* The output directory after a run wrote `size` at `path`.
Written(files, path, size) ==
    [n \in DOMAIN files \cup {Basename(path)} |->
        IF n = Basename(path) THEN size ELSE files[n]]

(***************************************************************************)
(* get_video_info (lines 91-123).                                          *)
(***************************************************************************)
Digits == <<"0", "1", "2", "3", "4", "5", "6", "7", "8", "9">>
IsDigit(c) == \E i \in DOMAIN Digits : Digits[i] = c
DigitVal(c) == (CHOOSE i \in DOMAIN Digits : Digits[i] = c) - 1

\* int(s) for a string of digits; int() raises for the other strings used
\* here (empty, or with a character that is no digit).
IsInt(s) == Len(s) > 0 /\ \A i \in DOMAIN s : IsDigit(s[i])

RECURSIVE ParseDigits(_)
ParseDigits(s) ==
    IF s = <<>> THEN 0
    ELSE 10 * ParseDigits(SubSeq(s, 1, Len(s) - 1)) + DigitVal(s[Len(s)])

\* round(n / d, 2), in hundredths, for n >= 0 and d > 0 where 100 * n / d
\* is not halfway between two integers.
Round2(n, d) == (200 * n + d) \div (2 * d)

\* Mutant: a zero denominator is taken as 1.
ParseRateZeroDenAsOne(s) ==
    LET P == {i \in DOMAIN s : s[i] = "/"}
    IN  IF Cardinality(P) # 1 THEN 0
        ELSE LET k == CHOOSE i \in P : TRUE
                 num == SubSeq(s, 1, k - 1)
                 den == SubSeq(s, k + 1, Len(s))
             IN  IF ~IsInt(num) \/ ~IsInt(den) THEN 0
                 ELSE IF ParseDigits(den) = 0 THEN Round2(ParseDigits(num), 1)
                 ELSE Round2(ParseDigits(num), ParseDigits(den))

\* Lines 115-119: the frame rate, in hundredths, of the string s.  The
\* unpacking of split('/') raises unless there is exactly one slash, int()
\* raises for a part that is no integer, the division raises for a zero
\* denominator; the bare except turns each into 0.
ParseRate(s) ==
    LET P == {i \in DOMAIN s : s[i] = "/"}
    IN  IF Cardinality(P) # 1 THEN 0
        ELSE LET k == CHOOSE i \in P : TRUE
                 num == SubSeq(s, 1, k - 1)
                 den == SubSeq(s, k + 1, Len(s))
             IN  IF ~IsInt(num) \/ ~IsInt(den) THEN 0
                 ELSE IF ParseDigits(den) = 0 THEN 0
                 ELSE Round2(ParseDigits(num), ParseDigits(den))

\* A field of ffprobe's JSON: absent, holding a value of the expected kind,
\* or holding something the conversion at lines 109-114 raises for.
Absent == [kind |-> "absent"]
Val(v) == [kind |-> "ok", val |-> v]
Bad == [kind |-> "bad"]

\* dict.get(key, 0) followed by float() or int().
Field(f) == IF f = Absent THEN 0 ELSE f.val

R_30_1 == <<"3", "0", "/", "1">>
R_60_1 == <<"6", "0", "/", "1">>
R_30000_1001 == <<"3", "0", "0", "0", "0", "/", "1", "0", "0", "1">>
R_1_3 == <<"1", "/", "3">>
R_0_1 == <<"0", "/", "1">>
R_30_0 == <<"3", "0", "/", "0">>
R_0_0 == <<"0", "/", "0">>
R_30 == <<"3", "0">>
R_30_1_1 == <<"3", "0", "/", "1", "/", "1">>
R_x_1 == <<"x", "/", "1">>
R_30_ == <<"3", "0", "/">>
R_empty == <<>>

RateStrings ==
    {R_30_1, R_60_1, R_30000_1001, R_1_3, R_0_1, R_30_0, R_0_0, R_30,
     R_30_1_1, R_x_1, R_30_, R_empty}

\* What subprocess.run(['ffprobe', ...], timeout=30) may do: raise (missing
\* binary, timeout); print something that is no JSON, or JSON that is no
\* object; print an object, with or without a video stream.
FfprobeOutputs ==
    [raised : {TRUE}, json : {"none"}, duration : {Absent}, size : {Absent},
     has_video : {FALSE}, width : {Absent}, height : {Absent}, rate : {Absent}]
    \cup [raised : {FALSE}, json : {"garbage", "list"}, duration : {Absent},
          size : {Absent}, has_video : {FALSE}, width : {Absent},
          height : {Absent}, rate : {Absent}]
    \cup [raised : {FALSE}, json : {"object"},
          duration : {Absent, Val(2), Bad},
          size : {Absent, Val(5), Bad},
          has_video : BOOLEAN,
          width : {Absent, Val(1921), Bad},
          height : {Val(1080), Bad},
          rate : {Absent, Bad} \cup {Val(r) : r \in RateStrings}]

ZeroInfo == [duration |-> 0, size |-> 0, width |-> 0, height |-> 0, fps |-> 0]

\* An exception that leaves get_video_info.
InfoRaised == [raised |-> TRUE]

\* Whether lines 94-112 raise: subprocess.run, json.loads, data.get on what
\* is no dict, float() and int().
MetadataRaises(o) ==
    \/ o.raised
    \/ o.json # "object"
    \/ o.duration = Bad
    \/ o.size = Bad
    \/ o.has_video /\ (o.width = Bad \/ o.height = Bad)

\* Lines 114-119: r_frame_rate, '0/1' when there is none; a value that is
\* no string has no split and ends in the bare except as well.
FrameRate(o) ==
    IF ~o.has_video \/ o.rate = Absent THEN ParseRate(R_0_1)
    ELSE IF o.rate = Bad THEN 0
    ELSE ParseRate(o.rate.val)

\* Lines 109-121: the record returned when nothing raised.
Metadata(o) ==
    [duration |-> Field(o.duration),
     size |-> Field(o.size),
     width |-> IF o.has_video THEN Field(o.width) ELSE 0,
     height |-> IF o.has_video THEN Field(o.height) ELSE 0,
     fps |-> FrameRate(o)]

\* Mutant: no outer except; the exception leaves the function.
get_video_infoUncaught(o) ==
    IF MetadataRaises(o) THEN InfoRaised ELSE Metadata(o)

get_video_info(o) ==
    IF MetadataRaises(o) THEN ZeroInfo ELSE Metadata(o)

(***************************************************************************)
(* The summary (lines 354-360).                                            *)
(***************************************************************************)
NoSummary == [none |-> TRUE]

RECURSIVE SumOver(_, _)
SumOver(rs, field) ==
    IF rs = <<>> THEN 0 ELSE Head(rs)[field] + SumOver(Tail(rs), field)

Succeeded(r) == r.ok
Failed(r) == ~r.ok

\* Mutant: the original total counts the succeeded results only.
TotalOrigOfSucceeded(rs) == SumOver(SelectSeq(rs, Succeeded), "original_size")

\* Line 358.
TotalOrig(rs) == SumOver(rs, "original_size")

\* Line 357.
TotalCompressed(rs) == SumOver(SelectSeq(rs, Succeeded), "compressed_size")

\* Line 360: the percentage saved, as the fraction num / den.
SavedPct(total_saved, total_orig) ==
    IF total_orig > 0 THEN [num |-> total_saved * 100, den |-> total_orig]
                      ELSE [num |-> 0, den |-> 1]

Summary(rs) ==
    LET success == SelectSeq(rs, Succeeded)
        failed == SelectSeq(rs, Failed)
        total_compressed == TotalCompressed(rs)
        total_orig == TotalOrig(rs)
        total_saved == total_orig - total_compressed
    IN  [n_success |-> Len(success),
         n_failed |-> Len(failed),
         failed_names |-> [i \in 1..Len(failed) |-> failed[i].filename],
         total_orig |-> total_orig,
         total_compressed |-> total_compressed,
         total_saved |-> total_saved,
         saved_pct |-> SavedPct(total_saved, total_orig)]

(***************************************************************************)
(* The initial state: main() has not started.                              *)
(***************************************************************************)
NoFiles == [n \in {} |-> 0]

Init ==
    /\ pc = "check_ffmpeg"
    /\ exit_code = -1
    /\ media \in {Missing} \cup {Present(dir) : dir \in Directories}
    /\ out_dir = FALSE
    /\ outfiles = NoFiles
    /\ use_gpu = FALSE
    /\ parallel = 0
    /\ videos = <<>>
    /\ tasks = <<>>
    /\ fut = <<>>
    /\ collected = {}
    /\ tstate = <<>>
    /\ results = <<>>
    /\ summary = NoSummary
    /\ probe_file \in {"absent", "empty", "nonempty"}
    /\ encoder = "unknown"
    /\ probe = NoProbe
    /\ unit = NoUnit
    /\ ac = NotIterating
    /\ app = NoApp
    /\ data_file = NoFile
    /\ page = NoPage

(***************************************************************************)
(* main(), lines 278-305: the checks and the discovery.                    *)
(***************************************************************************)
\* sys.exit(code).
Exit(code) ==
    /\ pc' = "exited"
    /\ exit_code' = code

\* Lines 279-280.
CheckFfmpeg ==
    /\ pc = "check_ffmpeg"
    /\ \E outcome \in FfmpegOutcomes :
          /\ encoder' = outcome
          /\ IF check_ffmpeg(outcome)
               THEN pc' = "check_nvenc" /\ exit_code' = exit_code
               ELSE Exit(1)
    /\ UNCHANGED <<ac, app, data_file, page, unit, media, probe, out_dir, outfiles, use_gpu, parallel, videos, tasks,
                   fut, collected, tstate, results, summary, probe_file>>

\* Line 282, for the runs whose cleanup succeeds: the artifact is removed
\* on every path (lines 74, 84-86).  Nothing later reads the artifact.
CheckNvenc ==
    /\ pc = "check_nvenc"
    /\ \E run \in ProbeRuns :
          /\ use_gpu' = check_nvenc(probe_file, run, TRUE)
          /\ probe_file' = ProbeFileLeft(probe_file, run, TRUE, TRUE)
    /\ pc' = "check_dir"
    /\ UNCHANGED <<ac, app, data_file, page, unit, exit_code, media, encoder, probe, out_dir, outfiles, parallel, videos, tasks,
                   fut, collected, tstate, results, summary>>

\* Mutant: os.makedirs raises for an existing directory, whatever exist_ok.
makedirsIgnoresExistOk(exists, exist_ok) == exists

\* Whether os.makedirs(OUTPUT_DIR, exist_ok=...) raises FileExistsError.
makedirs_raises(exists, exist_ok) == exists /\ ~exist_ok

\* Lines 285-289.  An exception of os.makedirs would leave main().
CheckMediaDir ==
    /\ pc = "check_dir"
    /\ IF ~media.exists
         THEN Exit(1) /\ out_dir' = out_dir
         ELSE IF makedirs_raises(out_dir, TRUE)
           THEN pc' = "crashed" /\ exit_code' = 1 /\ out_dir' = out_dir
           ELSE pc' = "discover" /\ exit_code' = exit_code /\ out_dir' = TRUE
    /\ UNCHANGED <<ac, app, data_file, page, unit, media, encoder, probe, outfiles, use_gpu, parallel, videos, tasks, fut,
                   collected, tstate, results, summary, probe_file>>

\* Lines 291-305.
DiscoverVideos ==
    /\ pc = "discover"
    /\ videos' = Discover(media.entries)
    /\ IF videos' = <<>>
         THEN Exit(0) /\ parallel' = parallel
         ELSE pc' = "dispatch" /\ exit_code' = exit_code
              /\ parallel' = Parallel(use_gpu)
    /\ UNCHANGED <<ac, app, data_file, page, unit, media, encoder, probe, out_dir, outfiles, use_gpu, tasks, fut, collected,
                   tstate, results, summary, probe_file>>

\* Lines 328-346: the task list is built and every task is submitted.
Dispatch ==
    /\ pc = "dispatch"
    /\ tasks' = BuildTasks(videos)
    /\ fut' = [i \in 1..Len(videos) |-> [state |-> "pending", result |-> NoResult]]
    /\ tstate' = [i \in 1..Len(videos) |->
                    [pc |-> "queued", original_size |-> 0, start_time |-> 0,
                     now |-> 0, runs |-> <<>>]]
    /\ results' = <<>>
    /\ collected' = {}
    /\ pc' = "collect"
    /\ UNCHANGED <<ac, app, data_file, page, unit, exit_code, media, encoder, probe, out_dir, outfiles, use_gpu, parallel,
                   videos, summary, probe_file>>

(***************************************************************************)
(* The pool's workers run compress_video.                                  *)
(***************************************************************************)
PoolOpen == pc \in {"collect", "unwind"}

\* A run of the log closed: when and how it ended, the size of the output
\* the encoder produced and the size the output file has when the run ends.
Closed(run, ended, status, rc, produced, wrote) ==
    [run EXCEPT !.ended = ended, !.status = status, !.rc = rc,
                !.produced = produced, !.wrote = wrote]

\* The other tasks whose encoder is writing the output path of task i.
OtherWriters(i) ==
    {j \in RunningTasks \ {i} : tasks[j].output_path = tasks[i].output_path}

\* The sizes the output file may have when a run that produced sz ends: sz,
\* or any size when another encoder is writing the same file.
SizesOnDisk(i, sz) ==
    IF OtherWriters(i) = {} THEN {sz} ELSE EncSizes(tasks[i].total)

\* Lines 206-227: a free worker takes the oldest pending task, reads the
\* input's size (which raises when the file is gone), builds the first
\* command and starts the encoder (which may raise).
TaskStart(i) ==
    /\ PoolOpen
    /\ i \in PendingTasks
    /\ \A j \in PendingTasks : i <= j
    /\ WorkerFree
    /\ LET t == tasks[i]
           filename == Basename(t.input_path)
           mode == FirstMode(use_gpu)
       IN  \E size_ok \in BOOLEAN, popen_ok \in BOOLEAN :
              IF ~size_ok
                THEN /\ fut' = [fut EXCEPT ![i] = RaisedFuture]
                     /\ tstate' = [tstate EXCEPT ![i].pc = "done"]
              ELSE IF ~popen_ok
                THEN /\ fut' = [fut EXCEPT ![i] =
                                  CaughtFuture(filename, InputSize(filename),
                                               Elapsed(0, 0))]
                     /\ tstate' = [tstate EXCEPT
                            ![i].pc = "done",
                            ![i].original_size = InputSize(filename),
                            ![i].runs = <<Closed(Run(mode, t, 0), 0, "raised", -1, 0, 0)>>]
                ELSE /\ fut' = [fut EXCEPT ![i].state = "running"]
                     /\ tstate' = [tstate EXCEPT
                            ![i].pc = "primary",
                            ![i].original_size = InputSize(filename),
                            ![i].runs = <<Run(mode, t, 0)>>]
    /\ UNCHANGED <<app, data_file, page, unit, pc, exit_code, media, encoder, probe, out_dir, outfiles, use_gpu, parallel,
                   videos, tasks, collected, results, summary, probe_file>>

\* Lines 228-269: the running encoder exits after d ticks with status rc,
\* having produced an output of size sz when rc is 0; the output file then
\* has the size disk.  A failed accelerated
\* run is followed by the software run (lines 232-242); any other exit ends
\* the task with its result.
EncoderExit(i) ==
    /\ PoolOpen
    /\ i \in RunningTasks
    /\ LET t == tasks[i]
           ts == tstate[i]
           filename == Basename(t.input_path)
           k == Len(ts.runs)
       IN  \E d \in EncDurations(t.total), rc \in {0, 1}, sz \in EncSizes(t.total),
              popen_ok \in BOOLEAN :
            \E disk \in SizesOnDisk(i, sz) :
              LET now == ts.now + d
                  runs == [ts.runs EXCEPT ![k] =
                              Closed(@, now, "exited", rc, IF rc = 0 THEN sz ELSE 0,
                                     IF rc = 0 THEN disk ELSE 0)]
                  files == IF rc = 0 THEN Written(outfiles, t.output_path, disk)
                                     ELSE outfiles
              IN  /\ outfiles' = files
                  /\ IF ts.pc = "primary" /\ FallbackNeeded(rc, use_gpu)
                       THEN LET start == FallbackStartTime(ts.start_time, now)
                            IN  IF popen_ok
                                  THEN /\ tstate' = [tstate EXCEPT ![i] =
                                            [ts EXCEPT !.pc = "fallback", !.now = now,
                                                       !.start_time = start,
                                                       !.runs = Append(runs, Run("cpu", t, now))]]
                                       /\ fut' = fut
                                  ELSE /\ tstate' = [tstate EXCEPT ![i] =
                                            [ts EXCEPT !.pc = "done", !.now = now,
                                                       !.start_time = start,
                                                       !.runs = Append(runs,
                                                           Closed(Run("cpu", t, now), now, "raised", -1, 0, 0))]]
                                       /\ fut' = [fut EXCEPT ![i] =
                                            CaughtFuture(filename, ts.original_size,
                                                         Elapsed(now, start))]
                       ELSE /\ tstate' = [tstate EXCEPT ![i] =
                                 [ts EXCEPT !.pc = "done", !.now = now, !.runs = runs]]
                            /\ fut' = [fut EXCEPT ![i] =
                                 IF rc # 0
                                   THEN ReturnedFuture(FailedResult(filename, ts.original_size,
                                                                    Elapsed(now, ts.start_time)))
                                 ELSE IF Basename(t.output_path) \notin DOMAIN files
                                   THEN CaughtFuture(filename, ts.original_size,
                                                     Elapsed(now, ts.start_time))
                                 ELSE ReturnedFuture(SucceededResult(filename, ts.original_size,
                                                        files[Basename(t.output_path)],
                                                        Elapsed(now, ts.start_time)))]
    /\ UNCHANGED <<app, data_file, page, unit, pc, exit_code, media, encoder, probe, out_dir, use_gpu, parallel, videos,
                   tasks, collected, results, summary, probe_file>>

(***************************************************************************)
(* main(), lines 348-378: the results are collected and summarised.        *)
(***************************************************************************)
\* Lines 348-350: as_completed yields a finished future; future.result()
\* returns the task's result, or raises the task's exception, which leaves
\* the loop and the with block.
Collect(i) ==
    /\ pc = "collect"
    /\ i \in DOMAIN fut
    /\ i \notin collected
    /\ Finished(i)
    /\ collected' = collected \cup {i}
    /\ IF fut[i].state = "returned"
         THEN results' = Append(results, fut[i].result) /\ pc' = pc
         ELSE results' = results /\ pc' = "unwind"
    /\ UNCHANGED <<app, data_file, page, unit, exit_code, media, encoder, probe, out_dir, outfiles, use_gpu, parallel,
                   videos, tasks, fut, tstate, summary, probe_file>>

\* The with block's exit on an exception: shutdown(wait=True) lets every
\* submitted task finish, then the exception leaves main().
Unwind ==
    /\ pc = "unwind"
    /\ \A i \in DOMAIN fut : Finished(i)
    /\ pc' = "crashed"
    /\ exit_code' = 1
    /\ UNCHANGED <<ac, app, data_file, page, unit, media, encoder, probe, out_dir, outfiles, use_gpu, parallel, videos, tasks,
                   fut, collected, tstate, results, summary, probe_file>>

\* Lines 352-378: every future was yielded; the summary is printed and
\* main() returns.
Summarize ==
    /\ pc = "collect"
    /\ collected = DOMAIN fut
    /\ summary' = Summary(results)
    /\ Exit(0)
    /\ UNCHANGED <<ac, app, data_file, page, unit, media, encoder, probe, out_dir, outfiles, use_gpu, parallel, videos, tasks,
                   fut, collected, tstate, results, probe_file>>

Next ==
    \/ CheckFfmpeg
    \/ CheckNvenc
    \/ CheckMediaDir
    \/ DiscoverVideos
    \/ Dispatch
    \/ \E i \in DOMAIN tasks : TaskStart(i) /\ UNCHANGED ac
    \/ \E i \in DOMAIN tasks : EncoderExit(i) /\ UNCHANGED ac
    \/ \E i \in DOMAIN tasks : Collect(i) /\ UNCHANGED ac
    \/ Unwind
    \/ Summarize

Spec == Init /\ [][Next]_vars

(***************************************************************************)
(* The same program with the check_nvenc call traced: what the probing     *)
(* encode did and whether the removals succeeded are kept in `probe`.      *)
(* It is run on the small media directories.                               *)
(***************************************************************************)
\* Lines 279-280, every outcome of the version query.
CheckFfmpegTraced ==
    /\ pc = "check_ffmpeg"
    /\ \E outcome \in VersionQueries :
          /\ encoder' = outcome
          /\ IF check_ffmpeg(outcome)
               THEN pc' = "check_nvenc" /\ exit_code' = exit_code
               ELSE Exit(1)
    /\ UNCHANGED <<ac, app, data_file, page, unit, media, probe, out_dir, outfiles, use_gpu, parallel, videos, tasks,
                   fut, collected, tstate, results, summary, probe_file>>

\* Line 282, every outcome of the probing encode and of the removals.
CheckNvencTraced ==
    /\ pc = "check_nvenc"
    /\ \E run \in ProbeRuns, rm1_ok \in BOOLEAN, rm2_ok \in BOOLEAN :
          /\ use_gpu' = check_nvenc(probe_file, run, rm1_ok)
          /\ probe_file' = ProbeFileLeft(probe_file, run, rm1_ok, rm2_ok)
          /\ probe' = [before |-> probe_file, run |-> run, rm1_ok |-> rm1_ok,
                       rm2_ok |-> rm2_ok,
                       result |-> check_nvenc(probe_file, run, rm1_ok)]
    /\ pc' = "check_dir"
    /\ UNCHANGED <<ac, app, data_file, page, unit, exit_code, media, encoder, out_dir, outfiles, parallel,
                   videos, tasks, fut, collected, tstate, results, summary>>

InitProbe ==
    /\ Init
    /\ media \in {Missing, Present({F_bmp4})}

NextProbe ==
    \/ CheckFfmpegTraced
    \/ CheckNvencTraced
    \/ CheckMediaDir
    \/ DiscoverVideos
    \/ Dispatch
    \/ \E i \in DOMAIN tasks : TaskStart(i) /\ UNCHANGED ac
    \/ \E i \in DOMAIN tasks : EncoderExit(i) /\ UNCHANGED ac
    \/ \E i \in DOMAIN tasks : Collect(i) /\ UNCHANGED ac
    \/ Unwind
    \/ Summarize

ProbeSpec == InitProbe /\ [][NextProbe]_vars

(***************************************************************************)
(* The functions on their own: one call, its arguments drawn from bounded  *)
(* sets, kept in `unit` with what it returned.  main() does not run.       *)
(***************************************************************************)
Call(fn, in, out) == [fn |-> fn, in |-> in, out |-> out]

main_vars ==
    <<pc, exit_code, media, out_dir, outfiles, use_gpu, parallel, videos,
      tasks, fut, collected, tstate, results, summary, probe_file, encoder,
      probe, ac, app, data_file, page>>

\* Line 208, for every output of the metadata probe.
CallGetVideoInfo ==
    /\ unit = NoUnit
    /\ \E o \in FfprobeOutputs :
          unit' = Call("get_video_info", o, get_video_info(o))
    /\ UNCHANGED main_vars

\* Paths as the strings os.path.join makes of them, and their basename.
UnitInputs == {"media/a.mov", "media/b.mp4", "-i"}
UnitOutputs == {"media_compressed/a.mp4", "media_compressed/b.mp4", "-y"}

basename(path) ==
    CASE path = "media/a.mov" -> "a.mov"
      [] path = "media/b.mp4" -> "b.mp4"
      [] OTHER -> path

\* Lines 217, 219, 234: both builders on the same paths.
CallBuildCmd ==
    /\ unit = NoUnit
    /\ \E i \in UnitInputs, o \in UnitOutputs :
          unit' = Call("build_cmd", [input_path |-> i, output_path |-> o],
                       [gpu |-> build_gpu_cmd(i, o), cpu |-> build_cpu_cmd(i, o)])
    /\ UNCHANGED main_vars

\* Picture sizes: small, odd, at and beyond the 1920x1080 bound.
Widths == {2, 3, 101, 640, 1280, 1919, 1920, 1921, 3840, 4097}
Heights == {2, 3, 99, 480, 720, 1079, 1080, 1081, 2160, 2161}

\* The filter of the built commands applied to a picture of iw x ih.
CallScalePad ==
    /\ unit = NoUnit
    /\ \E iw \in Widths, ih \in Heights :
          unit' = Call("scale_pad", [iw |-> iw, ih |-> ih], ScalePad(iw, ih))
    /\ UNCHANGED main_vars

\* Lines 217, 219, 234.
BuildCmd(mode, input_path, output_path) ==
    IF mode = "gpu" THEN build_gpu_cmd(input_path, output_path)
                    ELSE build_cpu_cmd(input_path, output_path)

\* What the world does during one compress_video call: whether the input's
\* size can be read, whether each Popen succeeds, the exit status of each
\* encoder run, how long it runs, and the size of the output written.
Environments ==
    [size_ok : BOOLEAN, popen1_ok : BOOLEAN, rc1 : {0, 1}, d1 : 1..MaxDur,
     popen2_ok : BOOLEAN, rc2 : {0, 1}, d2 : 1..MaxDur, sz : 1..MaxSize]

UnitAttempts(cmds, fallback, result) ==
    [cmds |-> cmds, fallback |-> fallback, result |-> result]

\* Lines 216-269 in environment env: the commands built and started, whether
\* the retry was decided, and the result returned.
Attempts(input_path, output_path, original_size, gpu, env) ==
    LET filename == basename(input_path)
        first == BuildCmd(FirstMode(gpu), input_path, output_path)
        retry == BuildCmd("cpu", input_path, output_path)
        start == FallbackStartTime(0, env.d1)
    IN  IF ~env.popen1_ok
          THEN UnitAttempts(<<first>>, FALSE,
                            FailedResult(filename, original_size, Elapsed(0, 0)))
        ELSE IF FallbackNeeded(env.rc1, gpu)
          THEN IF ~env.popen2_ok
                 THEN UnitAttempts(<<first, retry>>, TRUE,
                          FailedResult(filename, original_size,
                                       Elapsed(env.d1, start)))
               ELSE IF env.rc2 # 0
                 THEN UnitAttempts(<<first, retry>>, TRUE,
                          FailedResult(filename, original_size,
                                       Elapsed(env.d1 + env.d2, start)))
               ELSE UnitAttempts(<<first, retry>>, TRUE,
                          SucceededResult(filename, original_size, env.sz,
                                          Elapsed(env.d1 + env.d2, start)))
        ELSE IF env.rc1 # 0
          THEN UnitAttempts(<<first>>, FALSE,
                   FailedResult(filename, original_size, Elapsed(env.d1, 0)))
        ELSE UnitAttempts(<<first>>, FALSE,
                 SucceededResult(filename, original_size, env.sz,
                                 Elapsed(env.d1, 0)))

\* An exception of lines 206-221 leaves compress_video.
UnitRaised == [raised |-> TRUE]

\* Lines 210-213: the line printed when the task starts.
StartLine(gpu, filename, info, original_size) ==
    <<FirstMode(gpu), filename, info.width, info.height, info.fps, original_size>>

\* Mutant: the accelerated mode is only tried on a known picture width.
compress_videoModeByInfo(input_path, output_path, gpu, o, env) ==
    LET info == get_video_info(o)
    IN  IF ~env.size_ok \/ info = InfoRaised THEN UnitRaised
        ELSE [raised |-> FALSE,
              line |-> StartLine(gpu, basename(input_path), info, 1),
              attempts |-> Attempts(input_path, output_path, 1,
                                    gpu /\ info.width > 0, env)]

\* compress_video as a function of its arguments, of the metadata probe's
\* output o and of the environment.  The input has size 1.
compress_video(input_path, output_path, gpu, o, env) ==
    LET info == get_video_info(o)
    IN  IF ~env.size_ok \/ info = InfoRaised THEN UnitRaised
        ELSE [raised |-> FALSE,
              line |-> StartLine(gpu, basename(input_path), info, 1),
              attempts |-> Attempts(input_path, output_path, 1, gpu, env)]

\* Outputs of the metadata probe: a failed call, an object with a field
\* that is no number, an object without a video stream, a complete object.
FfprobeSamples ==
    { o \in FfprobeOutputs :
        \/ o.raised
        \/ /\ o.json = "object" /\ o.duration = Val(2) /\ o.size = Bad
           /\ o.has_video /\ o.width = Val(1921) /\ o.height = Val(1080)
           /\ o.rate = Val(R_30_1)
        \/ /\ o.json = "object" /\ o.duration = Val(2) /\ o.size = Val(5)
           /\ o.width = Val(1921) /\ o.height = Val(1080)
           /\ o.rate = Val(R_30000_1001) }

\* compress_video twice on the same arguments in the same environment, with
\* two outputs of the metadata probe.
CallCompressVideo ==
    /\ unit = NoUnit
    /\ \E gpu \in BOOLEAN, o1 \in FfprobeSamples, o2 \in FfprobeSamples,
          env \in Environments :
          unit' = Call("compress_video",
                       [input_path |-> "media/b.mp4",
                        output_path |-> "media_compressed/b.mp4",
                        use_gpu |-> gpu, probes |-> <<o1, o2>>, env |-> env],
                       << compress_video("media/b.mp4", "media_compressed/b.mp4",
                                         gpu, o1, env),
                          compress_video("media/b.mp4", "media_compressed/b.mp4",
                                         gpu, o2, env) >>)
    /\ UNCHANGED main_vars

InitUnit ==
    /\ Init
    /\ media = Missing
    /\ probe_file = "absent"

NextUnit ==
    \/ CallGetVideoInfo
    \/ CallBuildCmd
    \/ CallScalePad
    \/ CallCompressVideo

UnitSpec == InitUnit /\ [][NextUnit]_vars

(***************************************************************************)
(* The batch run twice: when main() has ended, the program is started      *)
(* again on the same media directory, with the output directory as the     *)
(* first run left it.  `unit` keeps how the first run ended.               *)
(***************************************************************************)
Rerun ==
    /\ pc \in {"exited", "crashed"}
    /\ unit = NoUnit
    /\ unit' = Call("main", [media |-> media],
                    [use_gpu |-> use_gpu, tasks |-> tasks, outfiles |-> outfiles])
    /\ pc' = "check_ffmpeg"
    /\ exit_code' = -1
    /\ use_gpu' = FALSE
    /\ parallel' = 0
    /\ videos' = <<>>
    /\ tasks' = <<>>
    /\ fut' = <<>>
    /\ collected' = {}
    /\ tstate' = <<>>
    /\ results' = <<>>
    /\ summary' = NoSummary
    /\ encoder' = "unknown"
    /\ ac' = NotIterating
    /\ UNCHANGED <<media, out_dir, outfiles, probe_file, probe, app, data_file, page>>

InitRerun ==
    /\ Init
    /\ media \in {Present({F_bmp4}), Present({F_aMOV, F_bmp4, F_hidden, F_ctxt})}
    /\ probe_file = "absent"

NextRerun ==
    \/ CheckFfmpeg
    \/ CheckNvenc
    \/ CheckMediaDir
    \/ DiscoverVideos
    \/ Dispatch
    \/ \E i \in DOMAIN tasks : TaskStart(i) /\ UNCHANGED ac
    \/ \E i \in DOMAIN tasks : EncoderExit(i) /\ UNCHANGED ac
    \/ \E i \in DOMAIN tasks : Collect(i) /\ UNCHANGED ac
    \/ Unwind
    \/ Summarize
    \/ Rerun

RerunSpec == InitRerun /\ [][NextRerun]_vars

(***************************************************************************)
(* The same program with as_completed traced (line 348).  as_completed     *)
(* is a generator: its first step, at the loop's first iteration, sets     *)
(* aside the futures that have already finished and yields them first, in  *)
(* no particular order (they are kept in a set); the others are yielded    *)
(* in the order they finish.  `ac` keeps the futures set aside and the     *)
(* order in which the tasks finished.                                      *)
(***************************************************************************)
\* Task i has just ended in f: it joins the order of completion.
Completed(a, f, i) ==
    IF f[i].state \in {"returned", "raised"}
      THEN [a EXCEPT !.done = Append(@, i)]
      ELSE a

TaskStartTraced(i) ==
    /\ TaskStart(i)
    /\ ac' = Completed(ac, fut', i)

EncoderExitTraced(i) ==
    /\ EncoderExit(i)
    /\ ac' = Completed(ac, fut', i)

\* Line 348, the first next() on as_completed(futures): the futures that
\* are finished by now are set aside.  The pool has been running since the
\* first submit (line 342).
BeginCollect ==
    /\ pc = "collect"
    /\ ~ac.started
    /\ ac' = [ac EXCEPT !.started = TRUE,
                        !.early = {i \in DOMAIN fut : Finished(i)}]
    /\ UNCHANGED <<app, data_file, page, unit, pc, exit_code, media, encoder, probe,
                   out_dir, outfiles, use_gpu, parallel, videos, tasks, fut,
                   collected, tstate, results, summary, probe_file>>

\* The first element of a non-empty sequence of futures not yet yielded.
FirstNotIn(seq, done) ==
    LET late == SelectSeq(seq, LAMBDA i : i \notin done)
    IN  IF late = <<>> THEN {} ELSE {Head(late)}

\* Mutant: the future that finished last is yielded first.
YieldableLastFirst(a, done) ==
    LET late == SelectSeq(a.done, LAMBDA i : i \notin done)
    IN  IF late = <<>> THEN {} ELSE {late[Len(late)]}

\* The futures as_completed may yield next: any of those set aside, then
\* the others in the order they finished.
Yieldable(a, done) ==
    IF a.early \ done # {} THEN a.early \ done
    ELSE FirstNotIn(a.done, done)

\* Lines 348-350 with the order of as_completed.
CollectInOrder(i) ==
    /\ ac.started
    /\ i \in Yieldable(ac, collected)
    /\ Collect(i)
    /\ UNCHANGED ac

InitOrder ==
    /\ Init
    /\ media \in {Present({F_bmp4}), Present({F_aMOV, F_bmp4, F_hidden, F_ctxt})}
    /\ probe_file = "absent"

NextOrder ==
    \/ CheckFfmpeg
    \/ CheckNvenc
    \/ CheckMediaDir
    \/ DiscoverVideos
    \/ Dispatch
    \/ \E i \in DOMAIN tasks : TaskStartTraced(i)
    \/ \E i \in DOMAIN tasks : EncoderExitTraced(i)
    \/ BeginCollect
    \/ \E i \in DOMAIN tasks : CollectInOrder(i)
    \/ Unwind
    \/ Summarize

OrderSpec == InitOrder /\ [][NextOrder]_vars

(***************************************************************************)
(* The tagging admin: scan.py and its earlier revision scam.py.  A web     *)
(* page lists the media files that have no entry in the record file        *)
(* (media.json); saving the form of a file appends an entry and redirects  *)
(* to the form of the first file still without one.                        *)
(*                                                                         *)
(* Texts typed in the form (the title here; description, date and tags     *)
(* are stored the same way) are sequences of code points, so that writing  *)
(* and reading the record file are computed.  File names are the ASCII     *)
(* names of the media directories above.                                   *)
(***************************************************************************)
Revisions == {"scan", "scam"}

\* locale.getpreferredencoding(False): what open() uses when it is given
\* no encoding.
Encodings == {"utf-8", "cp1252"}

\* scan.py line 21, scam.py line 14.
IMAGE_EXTS ==
    { <<".", "j", "p", "g">>, <<".", "j", "p", "e", "g">>, <<".", "p", "n", "g">>,
      <<".", "g", "i", "f">>, <<".", "w", "e", "b", "p">> }

\* scan.py line 22, scam.py line 15: the admin's VIDEO_EXTS.
ADMIN_VIDEO_EXTS ==
    { <<".", "m", "p", "4">>, <<".", "m", "o", "v">>, <<".", "w", "e", "b", "m">>,
      <<".", "o", "g", "g">> }

\* scan.py lines 15-18 followed by "/" and MEDIA_DIR.
GITHUB_LFS_MEDIA ==
    "https://media.githubusercontent.com/media/amdivyansh/session-2026/refs/heads/main/media"

\* scan.py lines 384-386.
make_lfs_uri(filename) == Join(GITHUB_LFS_MEDIA, filename)

\* The src of an entry: scan.py lines 506 and 512, scam.py line 280.
MakeSrc(rev, filename) ==
    IF rev = "scan" THEN make_lfs_uri(filename) ELSE Join(MEDIA_DIR, filename)

F_ppng == <<"p", ".", "p", "n", "g">>

AdminDirectories ==
    { {F_bmp4},
      {F_bmp4, F_hidden, F_ctxt},
      {F_aMOV, F_bmp4, F_ppng} }

\* The texts "t", "e acute" and "A acute".
T_t == <<116>>
T_eacute == <<233>>
T_Aacute == <<193>>

\* What the form's title field may hold.
Titles == {T_eacute}

\* UTF-8 of one code point below U+0800.
Utf8(cp) ==
    IF cp < 128 THEN <<cp>> ELSE <<192 + (cp \div 64), 128 + (cp % 64)>>

RECURSIVE Utf8Encode(_)
Utf8Encode(text) ==
    IF text = <<>> THEN <<>> ELSE Utf8(Head(text)) \o Utf8Encode(Tail(text))

RECURSIVE Utf8Decode(_)
Utf8Decode(bytes) ==
    IF bytes = <<>> THEN <<>>
    ELSE IF Head(bytes) < 128
      THEN <<Head(bytes)>> \o Utf8Decode(Tail(bytes))
      ELSE <<(bytes[1] - 192) * 64 + (bytes[2] - 128)>>
              \o Utf8Decode(SubSeq(bytes, 3, Len(bytes)))

\* The cp1252 code page for the bytes 128..159; 0 where it is undefined
\* (decoding such a byte raises UnicodeDecodeError).
Cp1252High ==
    << 8364, 0, 8218, 402, 8222, 8230, 8224, 8225, 710, 8240, 352, 8249, 338, 0,
       381, 0, 0, 8216, 8217, 8220, 8221, 8226, 8211, 8212, 732, 8482, 353, 8250,
       339, 0, 382, 376 >>

Cp1252Char(byte) ==
    IF byte < 128 \/ byte >= 160 THEN byte ELSE Cp1252High[byte - 127]

Cp1252Decodable(bytes) == \A i \in DOMAIN bytes : Cp1252Char(bytes[i]) # 0

Cp1252Decode(bytes) == [i \in DOMAIN bytes |-> Cp1252Char(bytes[i])]

\* The encoding of open(DATA_FILE, ...): scan.py lines 393 and 410 name
\* utf-8; scam.py lines 178 and 195 name none, which is the locale's.
FileEncoding(rev, locale) == IF rev = "scan" THEN "utf-8" ELSE locale

\* json.dump's ensure_ascii: scan.py line 411 passes False; scam.py line 196
\* keeps the default, which writes every non-ASCII character as an escape.
EnsureAscii(rev) == rev = "scam"

\* Whether a text kept in a record file can be read with encoding enc.  A
\* file written with ensure_ascii holds ASCII only, which both encodings
\* read alike; otherwise it holds the text's UTF-8 bytes.
Readable(enc, ascii, text) ==
    ascii \/ enc = "utf-8" \/ Cp1252Decodable(Utf8Encode(text))

\* The text as it is read.
ReadText(enc, ascii, text) ==
    IF ascii THEN text
    ELSE IF enc = "utf-8" THEN Utf8Decode(Utf8Encode(text))
    ELSE Cp1252Decode(Utf8Encode(text))

\* The record file: absent, of length 0, or a JSON list of entries.
MissingFile == [kind |-> "missing", ascii |-> TRUE, entries |-> <<>>]
EmptyFile == [kind |-> "empty", ascii |-> TRUE, entries |-> <<>>]
ListFile(ascii, entries) == [kind |-> "list", ascii |-> ascii, entries |-> entries]

\* A stored entry with a src and one without.
Entry(id, type, src, title) ==
    IF type = "video"
      THEN [id |-> id, type |-> type, src |-> src, title |-> title, thumbnail |-> src]
      ELSE [id |-> id, type |-> type, src |-> src, title |-> title]
EntryNoSrc(id, type, title) == [id |-> id, type |-> type, title |-> title]

\* The record files the admin may find: every one is empty or valid.
DataFiles ==
    { MissingFile,
      EmptyFile,
      ListFile(TRUE, <<>>),
      ListFile(FALSE, << Entry(3, "video", Join(MEDIA_DIR, F_bmp4), T_eacute),
                         EntryNoSrc(1, "image", T_t) >>),
      ListFile(TRUE, << Entry(3, "video", Join(MEDIA_DIR, F_bmp4), T_eacute),
                        EntryNoSrc(1, "image", T_t) >>),
      ListFile(FALSE, << Entry(1, "video", make_lfs_uri(F_aMOV), T_Aacute) >>) }

\* An entry as json.load returns it from a file read with encoding enc.
ReadEntry(enc, ascii, item) ==
    [item EXCEPT !.title = ReadText(enc, ascii, @)]

\* load_data (scan.py lines 388-396, scam.py lines 173-181): [] when the
\* file is absent or is no JSON; an undecodable byte raises
\* UnicodeDecodeError, which the handler does not catch.
load_data(a, f) ==
    LET enc == FileEncoding(a.rev, a.encoding)
    IN  IF f.kind # "list" THEN [raised |-> FALSE, data |-> <<>>]
        ELSE IF \E k \in DOMAIN f.entries : ~Readable(enc, f.ascii, f.entries[k].title)
          THEN [raised |-> TRUE, data |-> <<>>]
        ELSE [raised |-> FALSE,
              data |-> [k \in DOMAIN f.entries |-> ReadEntry(enc, f.ascii, f.entries[k])]]

Max(S) == CHOOSE x \in S : \A y \in S : y <= x

\* save_entry, scan.py lines 402-405 (scam.py lines 187-190).
NextId(data) ==
    IF data # <<>> THEN Max({data[k].id : k \in DOMAIN data}) + 1 ELSE 1

\* save_entry (scan.py lines 398-411, scam.py lines 183-196): the record
\* file after the entry is appended to the loaded data and the whole list
\* is written.
save_entry(a, data, entry) ==
    ListFile(EnsureAscii(a.rev), Append(data, [entry EXCEPT !.id = NextId(data)]))

\* os.makedirs(MEDIA_DIR) when the directory is absent (scan.py lines
\* 415-416).
AdminMediaDir(m) == IF m.exists THEN m ELSE Present({})

\* The names a loaded list tracks (scan.py lines 422-427).
Tracked(data) ==
    {Basename(data[k].src) : k \in {j \in DOMAIN data : "src" \in DOMAIN data[j]}}

\* The type of a listed file (scan.py lines 433-436); "" when the file is
\* neither an image nor a video.
MediaType(f) ==
    IF Lower(SplitExt(f)) \in IMAGE_EXTS THEN "image"
    ELSE IF Lower(SplitExt(f)) \in ADMIN_VIDEO_EXTS THEN "video"
    ELSE ""

\* Mutant: the tracked names are not looked at.
UntrackedIgnoresTracked(fs, tracked) ==
    LET keep == SelectSeq(fs, LAMBDA f : ~StartsWithDot(f) /\ MediaType(f) # "")
    IN  [k \in DOMAIN keep |-> [name |-> keep[k], type |-> MediaType(keep[k])]]

\* The loop of get_untracked_files (scan.py lines 429-436) over the sorted
\* listing: hidden, tracked and other files are skipped.
Untracked(fs, tracked) ==
    LET keep == SelectSeq(fs, LAMBDA f : /\ ~StartsWithDot(f)
                                        /\ f \notin tracked
                                        /\ MediaType(f) # "")
    IN  [k \in DOMAIN keep |-> [name |-> keep[k], type |-> MediaType(keep[k])]]

\* get_untracked_files (scan.py lines 413-438, scam.py lines 198-225) on
\* the media directory m and the record file f.
get_untracked_files(a, m, f) ==
    LET loaded == load_data(a, f)
    IN  IF loaded.raised THEN [raised |-> TRUE, files |-> <<>>]
        ELSE [raised |-> FALSE,
              files |-> Untracked(Sorted(AdminMediaDir(m).entries), Tracked(loaded.data))]

\* The pages: the list of the untracked files, the form of one file, and
\* the error page of a request that raised.
IndexPage(files) == [at |-> "index", files |-> files]
EditPage(filename) ==
    [at |-> "edit", filename |-> filename,
     file_type |-> IF Lower(SplitExt(filename)) \in IMAGE_EXTS THEN "image" ELSE "video"]
ErrorPage == [at |-> "error"]

\* index (scan.py lines 442-457).
Index ==
    /\ app # NoApp
    /\ LET got == get_untracked_files(app, media, data_file)
       IN  /\ media' = AdminMediaDir(media)
           /\ page' = IF got.raised THEN ErrorPage ELSE IndexPage(got.files)
    /\ UNCHANGED <<ac, app, data_file, unit, pc, exit_code, encoder, probe, out_dir,
                   outfiles, use_gpu, parallel, videos, tasks, fut, collected,
                   tstate, results, summary, probe_file>>

\* edit_media (scan.py lines 464-480): the form of any file of the media
\* directory, listed or not.
EditMedia ==
    /\ app # NoApp
    /\ \E filename \in media.entries : page' = EditPage(filename)
    /\ UNCHANGED <<ac, app, data_file, unit, pc, exit_code, media, encoder, probe,
                   out_dir, outfiles, use_gpu, parallel, videos, tasks, fut,
                   collected, tstate, results, summary, probe_file>>

\* save_media (scan.py lines 482-529, scam.py lines 263-299): the form of
\* the page is posted; the entry is saved and the browser follows the
\* redirect to the form of the first remaining file, or to the index.
SaveMedia ==
    /\ app # NoApp
    /\ page.at = "edit"
    /\ Len(data_file.entries) < MaxEntries
    /\ \E title \in Titles :
          LET loaded == load_data(app, data_file)
              src == MakeSrc(app.rev, page.filename)
              entry == Entry(0, page.file_type, src, title)
              saved == save_entry(app, loaded.data, entry)
              remaining == get_untracked_files(app, media, saved)
          IN  /\ data_file' = IF loaded.raised THEN data_file ELSE saved
              /\ media' = IF loaded.raised THEN media ELSE AdminMediaDir(media)
              /\ page' = IF loaded.raised THEN ErrorPage
                         ELSE IF remaining.files # <<>>
                           THEN EditPage(remaining.files[1].name)
                           ELSE IndexPage(remaining.files)
    /\ UNCHANGED <<ac, app, unit, pc, exit_code, encoder, probe, out_dir, outfiles,
                   use_gpu, parallel, videos, tasks, fut, collected, tstate,
                   results, summary, probe_file>>

\* compress.py's main() does not run.
MainIdle ==
    /\ pc = "check_ffmpeg"
    /\ exit_code = -1
    /\ out_dir = FALSE
    /\ outfiles = NoFiles
    /\ use_gpu = FALSE
    /\ parallel = 0
    /\ videos = <<>>
    /\ tasks = <<>>
    /\ fut = <<>>
    /\ collected = {}
    /\ tstate = <<>>
    /\ results = <<>>
    /\ summary = NoSummary
    /\ probe_file = "absent"
    /\ encoder = "unknown"
    /\ probe = NoProbe
    /\ unit = NoUnit
    /\ ac = NotIterating

InitAdmin ==
    /\ MainIdle
    /\ app \in [rev : Revisions, encoding : Encodings]
    /\ media \in {Missing} \cup {Present(dir) : dir \in AdminDirectories}
    /\ data_file \in DataFiles
    /\ page = NoPage

NextAdmin ==
    \/ Index
    \/ EditMedia
    \/ SaveMedia

AdminSpec == InitAdmin /\ [][NextAdmin]_vars

(***************************************************************************)
(* The auto-advance loop: the browser is at the form of a file of the      *)
(* media directory, or at the index, and the user posts every form the     *)
(* admin sends.                                                            *)
(***************************************************************************)
InitLoop ==
    /\ MainIdle
    /\ app \in [rev : Revisions, encoding : Encodings]
    /\ media \in {Present(dir) : dir \in AdminDirectories}
    /\ data_file \in DataFiles
    /\ page \in {EditPage(filename) : filename \in media.entries}
                  \cup {IndexPage(get_untracked_files(app, media, data_file).files)}

\* ENABLED <<SaveMedia>>_vars: the guard of SaveMedia, every step of which
\* changes the record file or the page.
SaveMediaEnabled ==
    /\ app # NoApp
    /\ page.at = "edit"
    /\ Len(data_file.entries) < MaxEntries

\* Weak fairness of SaveMedia, WF_vars(SaveMedia), with ENABLED written as
\* the guard: the user does not leave a form unposted for ever.
LoopFairness == []<>~SaveMediaEnabled \/ []<><<SaveMedia>>_vars

LoopSpec == InitLoop /\ [][SaveMedia]_vars /\ LoopFairness

(***************************************************************************)
(* Properties.                                                             *)
(***************************************************************************)
Dispatched == tasks # <<>>

\* main() has left the with block: the pool has drained.
Drained == Dispatched /\ pc \in {"exited", "crashed"}

Runs(i) == tstate[i].runs
LastRun(i) == Runs(i)[Len(Runs(i))]
Duration(run) == run.ended - run.started

\* The accelerated run of task i exited with a non-zero status.
AcceleratedFailed(i) ==
    /\ Len(Runs(i)) >= 1
    /\ Runs(i)[1].mode = "gpu"
    /\ Runs(i)[1].status = "exited"
    /\ Runs(i)[1].rc # 0

\* C1: once the pool has drained, the results list holds exactly one result
\* per discovered file: as many results as videos, with pairwise distinct
\* file names, each the name of a discovered video.
C1_OneResultPerFile ==
    Drained =>
        /\ Len(results) = Len(videos)
        /\ \A a, b \in DOMAIN results :
              results[a].filename = results[b].filename => a = b
        /\ \A a \in DOMAIN results :
              \E v \in DOMAIN videos : videos[v] = results[a].filename

\* C2: whenever the accelerated run of a task exits with a non-zero status,
\* the task makes exactly one more invocation, in software mode, on the same
\* input and output paths, started no earlier than the accelerated run ended.
C2_FallbackOnceAfterFailure ==
    \A i \in DOMAIN tstate :
        AcceleratedFailed(i) =>
            /\ Len(Runs(i)) = 2
            /\ Runs(i)[2].mode = "cpu"
            /\ Runs(i)[2].input = Runs(i)[1].input
            /\ Runs(i)[2].output = Runs(i)[1].output
            /\ Runs(i)[2].started >= Runs(i)[1].ended

C2_Witness ==
    \E i \in DOMAIN tstate :
        /\ use_gpu
        /\ AcceleratedFailed(i)
        /\ Len(Runs(i)) = 2
        /\ Runs(i)[2].status = "exited"

\* The software retry of task i exited with status zero.
FallbackSucceeded(i) ==
    /\ AcceleratedFailed(i)
    /\ Len(Runs(i)) = 2
    /\ Runs(i)[2].status = "exited"
    /\ Runs(i)[2].rc = 0

\* C3: a task whose accelerated run failed and whose software retry exited
\* with status zero returns a succeeded result; its elapsed time is the
\* retry's duration alone and its compressed size is the size the retry
\* wrote at the output path.
C3_FallbackSuccessResult ==
    \A i \in DOMAIN tstate :
        FallbackSucceeded(i) =>
            /\ fut[i].state = "returned"
            /\ fut[i].result.ok
            /\ fut[i].result.elapsed = Duration(Runs(i)[2])
            /\ fut[i].result.compressed_size = Runs(i)[2].wrote

C3_Witness ==
    \E i \in DOMAIN tstate :
        /\ FallbackSucceeded(i)
        /\ Duration(Runs(i)[1]) > 0
        /\ Duration(Runs(i)[2]) > 0
        /\ fut[i].result.ok

\* C4: every failed result has compressed size 0, and its elapsed time is
\* the duration of the task's last run.
C4_FailedResultShape ==
    \A i \in DOMAIN fut :
        (fut[i].state = "returned" /\ ~fut[i].result.ok) =>
            /\ fut[i].result.compressed_size = 0
            /\ Len(Runs(i)) >= 1
            /\ fut[i].result.elapsed = Duration(LastRun(i))

C4_Witness ==
    \E i \in DOMAIN fut :
        /\ fut[i].state = "returned"
        /\ ~fut[i].result.ok
        /\ AcceleratedFailed(i)
        /\ Len(Runs(i)) = 2
        /\ Runs(i)[2].status = "exited"
        /\ Runs(i)[2].rc # 0
        /\ fut[i].result.original_size > 0

\* No software run of task i that failed is followed by another run.
NoRunAfterSoftwareFailure(i) ==
    \A k \in DOMAIN Runs(i) :
        (Runs(i)[k].mode = "cpu" /\ Runs(i)[k].status # "running"
            /\ Runs(i)[k].rc # 0) => k = Len(Runs(i))

C6_SequentialWithoutAcceleration ==
    (Dispatched /\ ~use_gpu) =>
        /\ parallel = 1
        /\ Cardinality(RunningTasks) <= 1

C6_Witness ==
    /\ Dispatched
    /\ ~use_gpu
    /\ Cardinality(RunningTasks) = 1
    /\ PendingTasks # {}

\* C7: when the probe reported the accelerator available, the pool has
\* MAX_PARALLEL workers and at most MAX_PARALLEL tasks are running.
C7_BoundedParallelism ==
    (Dispatched /\ use_gpu) =>
        /\ parallel = MAX_PARALLEL
        /\ Cardinality(RunningTasks) <= MAX_PARALLEL

C7_Witness ==
    /\ Dispatched
    /\ use_gpu
    /\ Cardinality(RunningTasks) = MAX_PARALLEL
    /\ PendingTasks # {}

\* C8: no exception of a task leaves compress_video: every finished task
\* has returned a result, and main() is never unwinding from a task's
\* exception.
C8_TaskExceptionsContained ==
    /\ \A i \in DOMAIN fut : Finished(i) => fut[i].state = "returned"
    /\ pc \notin {"unwind", "crashed"}

\* Some invocation of task i raised.
InvocationRaised(i) == \E k \in DOMAIN Runs(i) : Runs(i)[k].status = "raised"

\* C9: when starting the encoder raises, for the first or the retried
\* invocation, the task returns a failed result with compressed size 0.
C9_InvocationExceptionCaught ==
    \A i \in DOMAIN tstate :
        InvocationRaised(i) =>
            /\ fut[i].state = "returned"
            /\ ~fut[i].result.ok
            /\ fut[i].result.compressed_size = 0

C9_Witness ==
    \E i, j \in DOMAIN tstate :
        /\ Len(Runs(i)) = 1 /\ Runs(i)[1].status = "raised"
        /\ Len(Runs(j)) = 2 /\ Runs(j)[2].status = "raised"
        /\ i \in collected
        /\ j \in collected
        /\ Len(results) = 2

\* C10: a dispatched batch completes and prints its summary whatever mix of
\* files succeeds or fails: whenever main() has ended after dispatch (every
\* encoder invocation having terminated), it ended with status zero and a
\* printed summary that counts every task as a success or a failure.
C10_BatchCompletesWithSummary ==
    (Dispatched /\ pc \in {"exited", "crashed"}) =>
        /\ pc = "exited"
        /\ exit_code = 0
        /\ summary # NoSummary
        /\ summary.n_success + summary.n_failed = Len(tasks)

\* Nothing was created, discovered or dispatched.
NothingDone ==
    /\ ~out_dir
    /\ DOMAIN outfiles = {}
    /\ videos = <<>>
    /\ tasks = <<>>
    /\ fut = <<>>

\* C11: when the encoder's version query fails, or the media directory does
\* not exist, main() has exited with status 1 once the check was made, and
\* no output directory was created, no file discovered, no task dispatched.
C11_FatalEnvironmentErrors ==
    /\ encoder \in {"missing", "timeout"} =>
          pc = "exited" /\ exit_code = 1 /\ NothingDone
    /\ ~media.exists => NothingDone
    /\ (~media.exists /\ pc \notin {"check_ffmpeg", "check_nvenc", "check_dir"}) =>
          pc = "exited" /\ exit_code = 1

C11_Witness ==
    /\ encoder = "ok"
    /\ ~media.exists
    /\ pc = "exited"
    /\ exit_code = 1

\* C12: when the encoder is present and the media directory exists, a
\* main() that has ended has ended with status zero: without any task when
\* no video was found, and with the summary printed otherwise.
C12_ExitZeroWhenEnvironmentOk ==
    (encoder = "ok" /\ media.exists /\ pc \in {"exited", "crashed"}) =>
        /\ exit_code = 0
        /\ videos = <<>> => ~Dispatched
        /\ videos # <<>> => summary # NoSummary

\* C13: no two tasks of a batch have the same output path, and no running
\* task shares its output path with another running task.
C13_DistinctOutputPaths ==
    /\ \A i, j \in DOMAIN tasks :
          tasks[i].output_path = tasks[j].output_path => i = j
    /\ \A i \in RunningTasks : OtherWriters(i) = {}

\* C14: the output path of a task is the output directory joined with the
\* input name up to its last dot, followed by ".mp4", whatever the
\* capability, the index and the mode; every run of the task, the retry
\* included, reads the task's input and writes that path.
C14_OutputPathFromName ==
    \A i \in DOMAIN tasks :
        LET name == videos[i]
            out == tasks[i].output_path
        IN  /\ out[1] = OUTPUT_DIR
            /\ \E k \in 1..Len(name) :
                  /\ name[k] = "."
                  /\ \A j \in (k + 1)..Len(name) : name[j] # "."
                  /\ out[2] = SubSeq(name, 1, k - 1) \o <<".", "m", "p", "4">>
            /\ \A r \in DOMAIN Runs(i) :
                  /\ Runs(i)[r].output = out
                  /\ Runs(i)[r].input = <<MEDIA_DIR, name>>

C14_Witness ==
    \E i \in DOMAIN tasks :
        /\ videos[i] = F_aMOV
        /\ tasks[i].output_path = <<OUTPUT_DIR, F_amp4>>
        /\ Len(Runs(i)) = 2
        /\ Runs(i)[2].mode = "cpu"
        /\ Runs(i)[2].status = "exited"

\* The result the encoder outcomes of task i determine: the exit status of
\* its last run, the size that run produced and the time it took.
ExpectedResult(i) ==
    LET last == LastRun(i)
        name == videos[i]
    IN  IF last.status = "exited" /\ last.rc = 0
          THEN Result(TRUE, name, InputSize(name), last.produced, Duration(last))
          ELSE Result(FALSE, name, InputSize(name), 0, Duration(last))

\* The tasks that made an encoder invocation.
Invoked == {i \in DOMAIN tstate : Len(Runs(i)) >= 1}

RECURSIVE ExpectedSum(_, _)
ExpectedSum(n, field) ==
    IF n = 0 THEN 0
    ELSE ExpectedSum(n - 1, field)
         + (IF n \in Invoked THEN ExpectedResult(n)[field] ELSE 0)

\* C15: the results are those the tasks' encoder outcomes determine,
\* whatever the interleaving: once the pool has drained, the set of results
\* is the set of the expected results, and the summary's totals are their
\* sums.
C15_ResultsIndependentOfInterleaving ==
    Drained =>
        /\ {results[k] : k \in DOMAIN results} = {ExpectedResult(i) : i \in Invoked}
        /\ summary # NoSummary
        /\ summary.total_orig = ExpectedSum(Len(tasks), "original_size")
        /\ summary.total_compressed = ExpectedSum(Len(tasks), "compressed_size")

\* The same letter, whatever its case.
SameLetter(c, d) ==
    c = d \/ <<c, d>> \in {<<"M", "m">>, <<"O", "o">>, <<"V", "v">>}

\* Name f ends with the extension e, compared case-insensitively.
EndsWithExt(f, e) ==
    /\ Len(f) > Len(e)
    /\ \A k \in 1..Len(e) : SameLetter(f[Len(f) - Len(e) + k], e[k])

\* main() is past line 298: it runs the batch, or has ended otherwise than by
\* exit(1) at line 280 or 287.
Discovered ==
    \/ pc \in {"dispatch", "collect", "unwind", "crashed"}
    \/ pc = "exited" /\ exit_code = 0

\* C16: the discovered videos are exactly the entries of the media
\* directory that do not start with a dot and end, case-insensitively, with
\* a video extension, in strictly ascending order; the directory
\* {a.MOV, b.mp4, .hidden.mp4, c.txt} yields [a.MOV, b.mp4].
C16_Discovery ==
    (Discovered /\ media.exists) =>
        /\ {videos[k] : k \in DOMAIN videos} =
              {f \in media.entries :
                  f[1] # "." /\ \E e \in VIDEO_EXTS : EndsWithExt(f, e)}
        /\ \A k \in 1..(Len(videos) - 1) : LexLess(videos[k], videos[k + 1])
        /\ media.entries = {F_aMOV, F_bmp4, F_hidden, F_ctxt} =>
              videos = <<F_aMOV, F_bmp4>>

C16_Witness ==
    /\ Discovered
    /\ media.entries = {F_aMOV, F_bmp4, F_hidden, F_ctxt}
    /\ videos = <<F_aMOV, F_bmp4>>

\* The sum of a field over the first k results; with only_ok, over the
\* succeeded ones among them.
RECURSIVE ResultsSum(_, _, _)
ResultsSum(k, field, only_ok) ==
    IF k = 0 THEN 0
    ELSE ResultsSum(k - 1, field, only_ok)
         + (IF only_ok /\ ~results[k].ok THEN 0 ELSE results[k][field])

\* Two succeeded results: 1000 -> 500 and 2000 -> 2500.
ExampleResults ==
    << Result(TRUE, F_aMOV, 1000, 500, 1), Result(TRUE, F_bmp4, 2000, 2500, 1) >>

\* C17: the summary aggregates the results: the original total is the sum
\* over all results, the compressed total the sum over the succeeded ones,
\* the success and failure counts partition the results; for the results
\* 1000 -> 500 and 2000 -> 2500 the saving and its percentage are 0 and
\* the success count is 2.
C17_Reporting ==
    /\ summary # NoSummary =>
          /\ summary.total_orig = ResultsSum(Len(results), "original_size", FALSE)
          /\ summary.total_compressed =
                ResultsSum(Len(results), "compressed_size", TRUE)
          /\ summary.total_saved = summary.total_orig - summary.total_compressed
          /\ summary.n_success = Cardinality({k \in DOMAIN results : results[k].ok})
          /\ summary.n_failed = Cardinality({k \in DOMAIN results : ~results[k].ok})
          /\ summary.n_success + summary.n_failed = Len(results)
    /\ Summary(ExampleResults).total_orig = 3000
    /\ Summary(ExampleResults).total_compressed = 3000
    /\ Summary(ExampleResults).total_saved = 0
    /\ Summary(ExampleResults).saved_pct.num = 0
    /\ Summary(ExampleResults).n_success = 2
    /\ Summary(ExampleResults).n_failed = 0

C17_Witness ==
    /\ summary # NoSummary
    /\ summary.n_success >= 1
    /\ summary.n_failed >= 1
    /\ summary.total_orig > summary.total_compressed

Probed == probe # NoProbe

\* A non-empty artifact exists once the probing encode is over: it was
\* written by the encode, or was there before and left alone.
ArtifactNonEmpty ==
    \/ probe.run.effect = "written"
    \/ probe.run.effect = "none" /\ probe.before = "nonempty"

\* The probing encode ended with status 0 and a diagnostic text that names
\* the codec.
DiagnosticOk == probe.run.rc = 0 /\ probe.run.names_codec

\* C18 as stated: check_nvenc returns true exactly when a non-empty artifact
\* exists after the probing encode, whatever its exit status and diagnostic
\* text.
C18_TrueIffArtifact ==
    Probed => (probe.result <=> ArtifactNonEmpty)

\* C18: check_nvenc returns true exactly when the probing encode raised no
\* exception and either a non-empty artifact exists and is removed, or no
\* non-empty artifact exists and the encode ended with status 0 and a
\* diagnostic text naming the codec; main() takes the value as use_gpu.
C18_TrueIffArtifactOrDiagnostic ==
    Probed =>
        /\ probe.result <=>
              /\ ~probe.run.raised
              /\ \/ ArtifactNonEmpty /\ probe.rm1_ok
                 \/ ~ArtifactNonEmpty /\ DiagnosticOk
        /\ use_gpu = probe.result

C18_Witness ==
    /\ Probed
    /\ ~probe.run.raised
    /\ ~ArtifactNonEmpty
    /\ DiagnosticOk
    /\ probe.result
    /\ use_gpu

\* C19: when the probing encode raises, check_nvenc returns false and
\* main() goes on: it ends with exit(1) only for a missing media directory,
\* and every encoder run of the batch is a software run, one at a time.
C19_ProbeExceptionMeansSoftware ==
    (Probed /\ probe.run.raised) =>
        /\ ~probe.result
        /\ ~use_gpu
        /\ pc # "check_nvenc"
        /\ (pc = "exited" /\ exit_code = 1) => ~media.exists
        /\ Dispatched => parallel = 1
        /\ \A i \in DOMAIN tstate : \A k \in 1..Len(Runs(i)) :
              Runs(i)[k].mode = "cpu"

C19_Witness ==
    /\ Probed
    /\ probe.run.raised
    /\ probe.run.effect = "written"
    /\ summary # NoSummary
    /\ summary.n_success = 1
    /\ \E i \in DOMAIN tstate : Len(Runs(i)) = 1 /\ Runs(i)[1].mode = "cpu"

\* C20: when the removals succeed, the probe artifact does not exist once
\* check_nvenc has returned, whether it returned true or false and whether
\* the probing encode raised or not.
C20_ArtifactRemoved ==
    (Probed /\ probe.rm1_ok /\ probe.rm2_ok) => probe_file = "absent"

C20_Witness ==
    /\ Probed
    /\ probe.rm1_ok /\ probe.rm2_ok
    /\ probe.run.raised
    /\ ArtifactNonEmpty
    /\ probe_file = "absent"

\* C21: check_ffmpeg returns False (main() exits with status 1 at line 280,
\* check_nvenc is never called) when the encoder binary is missing or the
\* version query times out; it returns True (main() goes on to check_nvenc)
\* for every other outcome of the query; in neither case does it raise.
C21_EncoderPresence ==
    encoder # "unknown" =>
        /\ encoder \in {"missing", "timeout"} =>
              pc = "exited" /\ exit_code = 1 /\ ~Probed
        /\ encoder \notin {"missing", "timeout"} => (pc = "check_nvenc" \/ Probed)
        /\ ~Probed => pc # "crashed"

C21_Witness ==
    /\ encoder = "failed"
    /\ Probed
    /\ pc = "check_dir"

Called(fn) == unit # NoUnit /\ unit.fn = fn

\* The metadata probe failed: the subprocess call raised, its output is no
\* JSON object, or the duration, the size, or the video stream's width or
\* height is no number.
MetadataFailure(o) ==
    \/ o.raised
    \/ o.json \in {"garbage", "list"}
    \/ \E f \in {o.duration, o.size} : f.kind = "bad"
    \/ o.has_video /\ \E f \in {o.width, o.height} : f.kind = "bad"

\* The well-formed rational strings, with numerator and denominator.
Rationals ==
    { <<R_30_1, 30, 1>>, <<R_60_1, 60, 1>>, <<R_30000_1001, 30000, 1001>>,
      <<R_1_3, 1, 3>>, <<R_0_1, 0, 1>>, <<R_30_0, 30, 0>>, <<R_0_0, 0, 0>> }

\* The video stream of output o carries the string of rational q.
HasRate(o, q) ==
    ~MetadataFailure(o) /\ o.has_video /\ o.rate = Val(q[1])

\* The string of the video stream's frame rate is malformed or missing its
\* parts.
MalformedRate(o) ==
    /\ ~MetadataFailure(o)
    /\ o.has_video
    /\ \/ o.rate = Bad
       \/ \E r \in {R_30, R_30_1_1, R_x_1, R_30_, R_empty} : o.rate = Val(r)

\* The fields other than the frame rate are those of the output.
OtherFieldsKept(o, info) ==
    /\ info.duration = (IF o.duration.kind = "ok" THEN o.duration.val ELSE 0)
    /\ info.size = (IF o.size.kind = "ok" THEN o.size.val ELSE 0)
    /\ info.width = (IF o.has_video /\ o.width.kind = "ok" THEN o.width.val ELSE 0)
    /\ info.height = (IF o.has_video /\ o.height.kind = "ok" THEN o.height.val ELSE 0)

\* C23 as stated: the frame rate is the numerator divided by the
\* denominator (here in hundredths: fps / 100 = num / den), and 0 for a
\* malformed string or a zero denominator, the other fields being kept.
C23_FrameRateIsQuotient ==
    Called("get_video_info") =>
        /\ \A q \in Rationals : HasRate(unit.in, q) =>
              /\ q[3] # 0 => unit.out.fps * q[3] = 100 * q[2]
              /\ q[3] = 0 => unit.out.fps = 0
              /\ OtherFieldsKept(unit.in, unit.out)
        /\ MalformedRate(unit.in) =>
              unit.out.fps = 0 /\ OtherFieldsKept(unit.in, unit.out)

\* C23: the frame rate is the numerator divided by the denominator, rounded
\* to two decimals (the hundredth nearest to num / den), and 0 for a
\* malformed string or a zero denominator; the other fields are returned as
\* parsed.
C23_FrameRateIsRoundedQuotient ==
    Called("get_video_info") =>
        /\ \A q \in Rationals : HasRate(unit.in, q) =>
              /\ q[3] # 0 =>
                    /\ 2 * (unit.out.fps * q[3] - 100 * q[2]) <= q[3]
                    /\ 2 * (100 * q[2] - unit.out.fps * q[3]) <= q[3]
              /\ q[3] = 0 => unit.out.fps = 0
              /\ OtherFieldsKept(unit.in, unit.out)
        /\ MalformedRate(unit.in) =>
              unit.out.fps = 0 /\ OtherFieldsKept(unit.in, unit.out)

C23_Witness ==
    /\ Called("get_video_info")
    /\ HasRate(unit.in, <<R_30_0, 30, 0>>)
    /\ unit.in.duration = Val(2)
    /\ unit.in.width = Val(1921)
    /\ unit.out = [duration |-> 2, size |-> 0, width |-> 1921, height |-> 1080,
                   fps |-> 0]

\* C22: get_video_info never raises; when the metadata probe fails it
\* returns the all-zero record; and compress_video, whatever the metadata
\* probe did, builds a command and starts the encoder whenever it could read
\* the input's size.
C22_MetadataFailureContained ==
    /\ Called("get_video_info") =>
          /\ unit.out # InfoRaised
          /\ MetadataFailure(unit.in) => unit.out = ZeroInfo
    /\ Called("compress_video") =>
          \A k \in {1, 2} :
              unit.in.env.size_ok =>
                  /\ unit.out[k] # UnitRaised
                  /\ Len(unit.out[k].attempts.cmds) >= 1

C22_Witness ==
    /\ Called("compress_video")
    /\ unit.in.env.size_ok
    /\ unit.in.probes[1].raised
    /\ unit.out[1] # UnitRaised
    /\ unit.out[1].line[3] = 0
    /\ unit.out[1].attempts.result.ok

\* C25: two calls of compress_video on the same arguments in the same
\* environment, which differ only in what the metadata probe printed, build
\* and start the same commands, take the same decision on the retry and
\* return the same result (or both raise).
C25_MetadataNonInterference ==
    Called("compress_video") =>
        /\ (unit.out[1] = UnitRaised) <=> (unit.out[2] = UnitRaised)
        /\ unit.out[1] # UnitRaised =>
              /\ unit.out[1].attempts.cmds = unit.out[2].attempts.cmds
              /\ unit.out[1].attempts.fallback = unit.out[2].attempts.fallback
              /\ unit.out[1].attempts.result = unit.out[2].attempts.result

C25_Witness ==
    /\ Called("compress_video")
    /\ unit.in.use_gpu
    /\ unit.out[1] # UnitRaised
    /\ unit.out[1].line # unit.out[2].line
    /\ unit.out[1].line[3] = 0
    /\ unit.out[2].line[3] # 0
    /\ unit.out[1].attempts.fallback
    /\ unit.out[2].attempts.result.ok

\* The mode every task is asked to start in, given the probe's answer.
PreferredMode == IF use_gpu THEN "gpu" ELSE "cpu"

\* C24: use_gpu is assigned by the step that calls check_nvenc and by no
\* other, parallel by the step that ends discovery and by no other, both
\* before any task exists; once tasks are dispatched parallel is
\* MAX_PARALLEL with acceleration and 1 without, and the first run of
\* every task has the mode the probe's answer asks for, whatever the other
\* tasks did.
C24_CapabilityFixed ==
    /\ [](/\ pc \in {"check_ffmpeg", "check_nvenc"} => ~use_gpu /\ parallel = 0
          /\ pc \in {"check_ffmpeg", "check_nvenc", "check_dir", "discover"} =>
                tasks = <<>> /\ fut = <<>>
          /\ Dispatched =>
                /\ parallel = (IF use_gpu THEN MAX_PARALLEL ELSE 1)
                /\ \A i \in DOMAIN tstate :
                      Len(Runs(i)) >= 1 => Runs(i)[1].mode = PreferredMode)
    /\ [][/\ pc # "check_nvenc" => use_gpu' = use_gpu
          /\ pc # "discover" => parallel' = parallel]_vars

C24_Witness ==
    /\ Drained
    /\ Len(tasks) = 4
    /\ use_gpu
    /\ parallel = MAX_PARALLEL
    /\ \E i \in DOMAIN tstate : AcceleratedFailed(i) /\ Len(Runs(i)) = 2
    /\ \A i \in DOMAIN tstate : Len(Runs(i)) >= 1 /\ Runs(i)[1].mode = "gpu"

\* The states task i went through, from its log: Pending, one attempt per
\* encoder invocation, and the state it ended in.
Attempt(run) == IF run.mode = "gpu" THEN "TryAccelerated" ELSE "TrySoftware"

Terminal(i) ==
    IF fut[i].state = "raised" THEN <<"Raised">>
    ELSE IF fut[i].state # "returned" THEN <<>>
    ELSE IF fut[i].result.ok THEN <<"Success">>
    ELSE <<"Failed">>

Path(i) ==
    <<"Pending">> \o [k \in 1..Len(Runs(i)) |-> Attempt(Runs(i)[k])] \o Terminal(i)

\* The paths of the two-attempt state machine.
MachinePaths(gpu) ==
    IF gpu
      THEN { <<"Pending", "TryAccelerated", "Success">>,
             <<"Pending", "TryAccelerated", "TrySoftware", "Success">>,
             <<"Pending", "TryAccelerated", "TrySoftware", "Failed">> }
      ELSE { <<"Pending", "TrySoftware", "Success">>,
             <<"Pending", "TrySoftware", "Failed">> }

IsPrefix(s, t) == Len(s) <= Len(t) /\ SubSeq(t, 1, Len(s)) = s

\* C26: the states a task goes through are a prefix of a path of the
\* two-attempt state machine, and a whole path once the task has ended.
C26_TwoAttemptStateMachine ==
    \A i \in DOMAIN tstate :
        /\ \E q \in MachinePaths(use_gpu) : IsPrefix(Path(i), q)
        /\ Finished(i) => Path(i) \in MachinePaths(use_gpu)

\* C27: when the last encoder run of a finished task exited with status 0,
\* the result is succeeded and its compressed size is the size the output
\* file has, whether smaller than the original size or not.
C27_NonPositiveSavingSucceeds ==
    \A i \in DOMAIN tstate :
        (/\ fut[i].state = "returned"
         /\ Len(Runs(i)) >= 1
         /\ LastRun(i).status = "exited"
         /\ LastRun(i).rc = 0) =>
            /\ fut[i].result.ok
            /\ fut[i].result.compressed_size = LastRun(i).wrote
            /\ fut[i].result.compressed_size = outfiles[Basename(tasks[i].output_path)]
               \/ OtherWriters(i) # {}
               \/ \E j \in DOMAIN tstate \ {i} :
                     tasks[j].output_path = tasks[i].output_path

C27_Witness ==
    \E i \in DOMAIN tstate :
        /\ fut[i].state = "returned"
        /\ Len(Runs(i)) = 2
        /\ LastRun(i).rc = 0
        /\ fut[i].result.ok
        /\ fut[i].result.compressed_size > fut[i].result.original_size

\* The command holds the option, and the argument that follows its first
\* occurrence.
Has(cmd, opt) == \E k \in DOMAIN cmd : cmd[k] = opt
After(cmd, opt) == cmd[(CHOOSE k \in DOMAIN cmd : cmd[k] = opt /\ \A j \in 1..(k - 1) : cmd[j] # opt) + 1]

\* Options of the video pipeline both commands must agree on.
SharedOptions == {"-vf", "-r", "-pix_fmt", "-c:a", "-b:a", "-movflags"}

\* C28: for every pair of paths the two built commands carry the same
\* filter expression, frame rate, pixel format, audio codec, audio bitrate
\* and faststart flag, start with ffmpeg -y, name the input after -i and
\* end with the output; only the accelerated one asks for hardware decoding
\* and the variable-bitrate parameters, only the software one for -crf.
C28_CommandsAgree ==
    Called("build_cmd") =>
        LET gpu == unit.out.gpu
            cpu == unit.out.cpu
        IN  /\ \A opt \in SharedOptions :
                  /\ Has(gpu, opt) /\ Has(cpu, opt)
                  /\ After(gpu, opt) = After(cpu, opt)
            /\ After(gpu, "-vf") = GpuScaleFilter
            /\ After(gpu, "-r") = "60"
            /\ After(gpu, "-pix_fmt") = "yuv420p"
            /\ After(gpu, "-c:a") = "aac"
            /\ After(gpu, "-b:a") = "192k"
            /\ After(gpu, "-movflags") = "+faststart"
            /\ \A cmd \in {gpu, cpu} :
                  /\ cmd[1] = "ffmpeg" /\ cmd[2] = "-y"
                  /\ After(cmd, "-i") = unit.in.input_path
                  /\ cmd[Len(cmd)] = unit.in.output_path
            /\ After(gpu, "-hwaccel") = "cuda"
            /\ ~Has(cpu, "-hwaccel")
            /\ After(gpu, "-c:v") = "h264_nvenc" /\ After(cpu, "-c:v") = "libx264"
            /\ \A opt \in {"-rc", "-cq", "-b:v", "-maxrate", "-bufsize"} :
                  Has(gpu, opt) /\ ~Has(cpu, opt)
            /\ After(gpu, "-rc") = "vbr"
            /\ Has(cpu, "-crf") /\ ~Has(gpu, "-crf")

C28_Witness ==
    /\ Called("build_cmd")
    /\ unit.in = [input_path |-> "media/a.mov", output_path |-> "media_compressed/a.mp4"]
    /\ unit.out.gpu[6] = "media/a.mov"
    /\ unit.out.cpu[4] = "media/a.mov"
    /\ unit.out.gpu[Len(unit.out.gpu)] = "media_compressed/a.mp4"
    /\ unit.out.cpu[Len(unit.out.cpu)] = "media_compressed/a.mp4"

\* C29: for every picture size of the range the filter's output has an
\* even width and an even height, the scaled picture is no larger than the
\* input in either dimension, and neither the scaled nor the padded picture
\* exceeds 1920x1080.
C29_ScaleNeverUpscalesAndIsEven ==
    Called("scale_pad") =>
        /\ unit.out.w % 2 = 0
        /\ unit.out.h % 2 = 0
        /\ unit.out.scaled.w <= unit.in.iw
        /\ unit.out.scaled.h <= unit.in.ih
        /\ unit.out.scaled.w <= 1920 /\ unit.out.w <= 1920
        /\ unit.out.scaled.h <= 1080 /\ unit.out.h <= 1080
        /\ unit.out.w >= unit.out.scaled.w /\ unit.out.w - unit.out.scaled.w <= 1
        /\ unit.out.h >= unit.out.scaled.h /\ unit.out.h - unit.out.scaled.h <= 1

C29_Witness ==
    /\ Called("scale_pad")
    /\ unit.in = [iw |-> 4097, ih |-> 2161]
    /\ unit.out.scaled = [w |-> 1920, h |-> 1013]
    /\ unit.out.w = 1920
    /\ unit.out.h = 1014

\* The output names the tasks of a run write to.
TargetNames(ts) == {Basename(ts[k].output_path) : k \in DOMAIN ts}

\* C30: in a second run on the same media directory with the same probe
\* answer, the tasks write to the output paths of the first run; creating
\* the output directory again raises nothing; the output directory holds
\* every file the first run left and no file beyond the names the first
\* run wrote to.
C30_RerunSameOutputs ==
    Called("main") =>
        /\ pc = "crashed" => Dispatched
        /\ (Dispatched /\ use_gpu = unit.out.use_gpu /\ unit.out.tasks # <<>>) =>
              /\ tasks = unit.out.tasks
              /\ TargetNames(tasks) = TargetNames(unit.out.tasks)
              /\ DOMAIN unit.out.outfiles \subseteq DOMAIN outfiles
              /\ DOMAIN outfiles \subseteq TargetNames(unit.out.tasks)
              /\ Drained /\ summary # NoSummary /\ summary.n_failed = 0
                 /\ DOMAIN unit.out.outfiles = TargetNames(unit.out.tasks) =>
                    DOMAIN outfiles = DOMAIN unit.out.outfiles

C30_Witness ==
    /\ Called("main")
    /\ Drained
    /\ use_gpu = unit.out.use_gpu
    /\ Len(tasks) = 2
    /\ summary # NoSummary
    /\ summary.n_failed = 0
    /\ DOMAIN unit.out.outfiles = TargetNames(tasks)
    /\ DOMAIN outfiles = TargetNames(tasks)
    /\ \E n \in DOMAIN outfiles : outfiles[n] # unit.out.outfiles[n]

\* The tasks whose running encoder is a software one.
SoftwareRunning ==
    {i \in RunningTasks : LastRun(i).mode = "cpu" /\ LastRun(i).status = "running"}

\* C31 as stated: at no time are two software encoders running at once,
\* also when the accelerator was probed as available and several running
\* tasks fell back to the software mode.
C31_OneSoftwareEncoderAtATime ==
    Cardinality(SoftwareRunning) <= 1

\* The saving over the succeeded results alone: the sum of original size
\* minus compressed size.
SavedBySucceeded ==
    ResultsSum(Len(results), "original_size", TRUE)
        - ResultsSum(Len(results), "compressed_size", TRUE)

\* C33 as stated: the saved bytes of the summary are the saving over the
\* succeeded results alone (a failed file adds nothing), and the percentage
\* saved is no more than the saving of the succeeded results over their
\* original sizes.
C33_SavedOverSucceededOnly ==
    summary # NoSummary =>
        /\ summary.total_saved = SavedBySucceeded
        /\ summary.saved_pct.num * ResultsSum(Len(results), "original_size", TRUE)
              <= SavedBySucceeded * 100 * summary.saved_pct.den

\* C34 as stated: the answer of check_nvenc is the answer the same probing
\* encode gives when no file was at the temporary path before it, and an
\* encode that ends with a non-zero status and writes nothing is never
\* answered with true.
C34_StaleArtifactIgnored ==
    Probed =>
        /\ probe.result = check_nvenc("absent", probe.run, probe.rm1_ok)
        /\ (probe.run.rc # 0 /\ probe.run.effect = "none") => ~probe.result

\* Task i has been taken by a worker.
Started(i) == tstate[i].pc # "queued"

\* The task whose result is the k-th of the results list.
TaskOf(k) == CHOOSE i \in DOMAIN videos : videos[i] = results[k].filename

\* The sequence of task numbers is increasing.
Increasing(seq) ==
    \A k \in DOMAIN seq, l \in DOMAIN seq : k < l => seq[k] < seq[l]

\* C32 as stated: with a concurrency level of 1, at most one task runs at a
\* time, a task has started only if every task before it in discovery
\* order has returned its result, and the results list is in discovery
\* order.
C32_SequentialInDiscoveryOrder ==
    (Dispatched /\ parallel = 1) =>
        /\ Cardinality(RunningTasks) <= 1
        /\ \A i \in DOMAIN tasks, j \in DOMAIN tasks :
              (i < j /\ Started(j)) => fut[i].state = "returned"
        /\ Increasing([k \in DOMAIN results |-> TaskOf(k)])

\* C32: with a concurrency level of 1, at most one task runs at a time, a
\* task has started only if every task before it in discovery order has
\* finished (returned or raised), so the tasks finish in discovery order;
\* the results list holds first the results of the tasks that had finished
\* when as_completed began, in any order, then the results of the other
\* tasks in discovery order.
C32_SequentialInCompletionOrder ==
    (Dispatched /\ parallel = 1) =>
        /\ Cardinality(RunningTasks) <= 1
        /\ \A i \in DOMAIN tasks, j \in DOMAIN tasks :
              (i < j /\ Started(j)) => Finished(i)
        /\ Increasing(ac.done)
        /\ \A k \in DOMAIN results, l \in DOMAIN results :
              k < l =>
                 /\ TaskOf(l) \in ac.early => TaskOf(k) \in ac.early
                 /\ TaskOf(k) > TaskOf(l) => TaskOf(k) \in ac.early

C32_Witness ==
    /\ parallel = 1
    /\ pc = "exited"
    /\ summary # NoSummary
    /\ ac.done = <<1, 2>>
    /\ ac.early = {1, 2}
    /\ Len(results) = 2
    /\ TaskOf(1) = 2
    /\ TaskOf(2) = 1

\* The ids of a record file's entries are pairwise distinct.
DistinctIds(f) ==
    \A k \in DOMAIN f.entries, l \in DOMAIN f.entries :
        k # l => f.entries[k].id # f.entries[l].id

\* C35 as stated: from an empty or valid record file on, the stored ids are
\* pairwise distinct, and every save appends one entry whose id is greater
\* than every id stored before and leaves every entry stored before as it
\* was.
C35_SaveKeepsStoredEntries ==
    /\ [](app # NoApp => DistinctIds(data_file))
    /\ [][data_file' # data_file =>
            LET old == data_file.entries
                new == data_file'.entries
            IN  /\ Len(new) = Len(old) + 1
                /\ \A k \in DOMAIN old : new[k] = old[k]
                /\ \A k \in DOMAIN old : new[Len(new)].id > old[k].id]_vars

\* The names get_untracked_files lists for the directory m and the file f.
UntrackedNames(m, f) ==
    LET got == get_untracked_files(app, m, f)
    IN  {got.files[k].name : k \in DOMAIN got.files}

====
